---- MODULE Spec2Model ----
(***************************************************************************)
(* ShadowLynx Ultra: flash-loan arbitrage orchestrator.                    *)
(*                                                                         *)
(* Model of core/flash_loan.py (FlashLoanOrchestrator), the part of        *)
(* ai/prediction_engine.py it calls (enhance_opportunities),               *)
(* core/reinvestment.py (ReinvestmentModule), dexs/price_aggregator.py     *)
(* (PriceAggregator) and the registry of dexs/dex_manager.py.              *)
(*                                                                         *)
(* Number representation (Python floats become fixed point):               *)
(*   - prices and liquidities: whole units / whole USD;                    *)
(*   - loan amounts: whole USD;                                            *)
(*   - profits, fees, capital: mills (0.001 USD);                          *)
(*   - price_diff_pct: an exact reduced fraction num/den of a percent;     *)
(*   - ai_confidence: hundredths (50 is 0.5);                              *)
(*   - max_allocation_per_trade: tenths of a percent (250 is 25.0%).       *)
(* A key that is absent from a Python dict is the value NoKey.             *)
(***************************************************************************)
EXTENDS Integers, Sequences, FiniteSets, TLC

VARIABLES
    running,                  \* FlashLoanOrchestrator.running
    loop_pc,                  \* where start_monitoring / opportunity_loop stands
    active,                   \* PredictionEngine.active and .model is set
    tasks,                    \* the execute_opportunity tasks created so far, in creation order
    permits,                  \* execution_semaphore._value
    waiters,                  \* execution_semaphore._waiters (task ids, FIFO)
    holders,                  \* task ids whose acquire() returned and did not release yet
    alerts,                   \* send_alert calls made by start_monitoring
    just_submitted,           \* the step just taken was a call of execute_flash_loan:
                              \* no await has completed since, no time has passed
    current_capital,          \* ReinvestmentModule.current_capital
    total_profit,             \* ReinvestmentModule.total_profit
    profit_history,           \* ReinvestmentModule.profit_history (amounts)
    max_allocation_per_trade, \* ReinvestmentModule.max_allocation_per_trade
    state_file,               \* content of STATE_FILE, NoFile when it does not exist
    capital_log,              \* the history the module started with, every
                              \* update_capital argument since, whether the last
                              \* save_state wrote the file, and the state the
                              \* last restart replaced
    pure,                     \* the last call of a pure function: arguments and result
    now,                      \* time.time(), in seconds
    price_cache,              \* PriceAggregator.price_cache
    last_update,              \* PriceAggregator.last_update
    rate_limits,              \* PriceAggregator.rate_limits
    updates,                  \* the update_prices calls in flight, by caller
    start_pc,                 \* position of PriceAggregator.start
    latest,                   \* the get_latest_prices call: position and result
    exhausted,                \* the triples whose last completed fetch gave up
    recent_fetches            \* the sources fetched from during the current second

orchVars == <<running, loop_pc, active, tasks, permits, waiters, holders, alerts,
              just_submitted>>
capVars == <<current_capital, total_profit, profit_history,
             max_allocation_per_trade, state_file, capital_log>>
aggVars == <<now, price_cache, last_update, rate_limits, updates, start_pc,
             latest, exhausted, recent_fetches>>
vars == <<running, loop_pc, active, tasks, permits, waiters, holders, alerts,
          just_submitted, current_capital, total_profit, profit_history,
          max_allocation_per_trade, state_file, capital_log, pure,
          now, price_cache, last_update, rate_limits, updates, start_pc,
          latest, exhausted, recent_fetches>>

-----------------------------------------------------------------------------
(* Bounds of the model *)

MaxTasks == 4
MaxPolicyTasks == 2
MaxCapitalCalls == 3
MaxQuotes == 3
MaxRestarts == 1
MaxTime == 4
MaxReads == 1
MaxFanOut == 9

(* Program constants *)

NoKey == -1

minimum_profit_threshold == 10000
max_concurrent_executions == 3
TopN == 5
MIN_LOAN_AMOUNT_USD == 1000
MAX_LOAN_AMOUNT_USD == 50000
AI_CONFIDENCE_THRESHOLD == 60
DefaultConfidence == 50
HistoryCap == 1000
RecentWindow == 50
INITIAL_CAPITAL_USD == 1000000
MAX_ALLOCATION_PER_TRADE == 250
AllocationCap == 500
AllocationFloor == 50
allocation_increase_threshold == 5

-----------------------------------------------------------------------------
(* Helpers *)

Min(a, b) == IF a <= b THEN a ELSE b
Max(a, b) == IF a >= b THEN a ELSE b
Abs(a) == IF a < 0 THEN -a ELSE a

RECURSIVE Gcd(_, _)
Gcd(a, b) == IF b = 0 THEN a ELSE Gcd(b, a % b)

RECURSIVE SumRange(_, _, _)
SumRange(s, lo, hi) ==
    IF lo > hi THEN 0
    ELSE IF lo = hi THEN s[lo]
    ELSE LET mid == (lo + hi) \div 2
         IN  SumRange(s, lo, mid) + SumRange(s, mid + 1, hi)

\* sum(s)
SumSeq(s) == SumRange(s, 1, Len(s))

RECURSIVE Flatten(_)
Flatten(ss) == IF ss = <<>> THEN <<>> ELSE Head(ss) \o Flatten(Tail(ss))

\* s[-n:]
LastN(s, n) == IF Len(s) <= n THEN s ELSE SubSeq(s, Len(s) - n + 1, Len(s))
\* s[:n]
FirstN(s, n) == IF Len(s) <= n THEN s ELSE SubSeq(s, 1, n)

Range(s) == {s[i] : i \in 1..Len(s)}

-----------------------------------------------------------------------------
(* core/flash_loan.py: detection *)

\* the limit taken from the deeper pool instead of the shallower one
determine_loan_amount_deeper_pool(buy_dex, sell_dex) ==
    LET liquidity_limit ==
            IF buy_dex.liquidity = NoKey /\ sell_dex.liquidity = NoKey THEN NoKey
            ELSE IF buy_dex.liquidity = NoKey THEN sell_dex.liquidity \div 100
            ELSE IF sell_dex.liquidity = NoKey THEN buy_dex.liquidity \div 100
            ELSE Max(buy_dex.liquidity, sell_dex.liquidity) \div 100
        capped == IF liquidity_limit = NoKey THEN MAX_LOAN_AMOUNT_USD
                  ELSE Min(liquidity_limit, MAX_LOAN_AMOUNT_USD)
    IN  Max(MIN_LOAN_AMOUNT_USD, capped)

\* float('inf') * 0.01 stays inf: an absent liquidity never limits the loan
determine_loan_amount(buy_dex, sell_dex) ==
    LET liquidity_limit ==
            IF buy_dex.liquidity = NoKey /\ sell_dex.liquidity = NoKey THEN NoKey
            ELSE IF buy_dex.liquidity = NoKey THEN sell_dex.liquidity \div 100
            ELSE IF sell_dex.liquidity = NoKey THEN buy_dex.liquidity \div 100
            ELSE Min(buy_dex.liquidity, sell_dex.liquidity) \div 100
        capped == IF liquidity_limit = NoKey THEN MAX_LOAN_AMOUNT_USD
                  ELSE Min(liquidity_limit, MAX_LOAN_AMOUNT_USD)
    IN  Max(MIN_LOAN_AMOUNT_USD, capped)

\* config is TRADING_CONFIG, which has no preferred_flash_loan_provider: AAVE, 0.09%
estimate_flash_loan_fee(loan_amount, network) == (loan_amount * 9) \div 10

\* dex_fee_rates.get(name.upper(), 0.003), in units of 0.0001
dex_fee_rate(dex) ==
    CASE dex = "PANCAKESWAP" -> 25
      [] dex = "SUSHISWAP" -> 30
      [] dex = "UNISWAP" -> 30
      [] dex = "QUICKSWAP" -> 30
      [] dex = "APESWAP" -> 30
      [] dex = "1INCH" -> 30
      [] dex = "DODO" -> 10
      [] dex = "CURVE" -> 4
      [] dex = "BALANCER" -> 20
      [] dex = "KYBERSWAP" -> 30
      [] OTHER -> 30

estimate_dex_fees(loan_amount, buy_dex, sell_dex) ==
    (loan_amount * dex_fee_rate(buy_dex)) \div 10 + (loan_amount * dex_fee_rate(sell_dex)) \div 10

estimate_gas_cost(network) ==
    CASE network = "BSC" -> 750
      [] network = "POLYGON" -> 24
      [] OTHER -> 10000

calculate_estimated_profit(buy_dex, sell_dex, price_diff_pct) ==
    LET loan_amount == determine_loan_amount(buy_dex, sell_dex)
        gross_profit == (loan_amount * price_diff_pct.num * 10) \div price_diff_pct.den
        flash_loan_fee == estimate_flash_loan_fee(loan_amount, buy_dex.network)
        dex_fees == estimate_dex_fees(loan_amount, buy_dex.dex_name, sell_dex.dex_name)
        gas_cost == estimate_gas_cost(buy_dex.network)
    IN  gross_profit - flash_loan_fee - dex_fees - gas_cost

\* the difference taken relative to the target price
PriceDiffPctOfTarget(source_price, target_price) ==
    LET n == Abs(target_price - source_price) * 100
        g == Gcd(n, target_price)
    IN  [num |-> n \div g, den |-> target_price \div g]

\* abs((target - source) / source) * 100, for source > 0
PriceDiffPct(source_price, target_price) ==
    LET n == Abs(target_price - source_price) * 100
        g == Gcd(n, source_price)
    IN  [num |-> n \div g, den |-> source_price \div g]

\* every compared pair appended, whatever its estimated profit
ComparePairUnfiltered(source_dex, target_dex) ==
    IF source_dex.price <= 0 \/ target_dex.price <= 0 THEN <<>>
    ELSE LET price_diff_pct == PriceDiffPct(source_dex.price, target_dex.price)
             buy_dex == IF source_dex.price < target_dex.price THEN source_dex ELSE target_dex
             sell_dex == IF source_dex.price < target_dex.price THEN target_dex ELSE source_dex
             estimated_profit == calculate_estimated_profit(buy_dex, sell_dex, price_diff_pct)
         IN  IF TRUE
             THEN << [token_pair |-> source_dex.token_pair,
                      buy_dex |-> buy_dex.dex_name,
                      sell_dex |-> sell_dex.dex_name,
                      buy_price |-> Min(source_dex.price, target_dex.price),
                      sell_price |-> Max(source_dex.price, target_dex.price),
                      price_diff_pct |-> price_diff_pct,
                      estimated_profit_usd |-> estimated_profit,
                      network |-> buy_dex.network,
                      loan_amount |-> NoKey,
                      ai_confidence |-> NoKey,
                      quotes |-> [buy |-> buy_dex, sell |-> sell_dex]] >>
             ELSE <<>>

\* the price check made on the source quote only
ComparePairSourceChecked(source_dex, target_dex) ==
    IF source_dex.price <= 0 THEN <<>>
    ELSE LET price_diff_pct == PriceDiffPct(source_dex.price, target_dex.price)
             buy_dex == IF source_dex.price < target_dex.price THEN source_dex ELSE target_dex
             sell_dex == IF source_dex.price < target_dex.price THEN target_dex ELSE source_dex
             estimated_profit == calculate_estimated_profit(buy_dex, sell_dex, price_diff_pct)
         IN  IF estimated_profit > 0
             THEN << [token_pair |-> source_dex.token_pair,
                      buy_dex |-> buy_dex.dex_name,
                      sell_dex |-> sell_dex.dex_name,
                      buy_price |-> Min(source_dex.price, target_dex.price),
                      sell_price |-> Max(source_dex.price, target_dex.price),
                      price_diff_pct |-> price_diff_pct,
                      estimated_profit_usd |-> estimated_profit,
                      network |-> buy_dex.network,
                      loan_amount |-> NoKey,
                      ai_confidence |-> NoKey,
                      quotes |-> [buy |-> buy_dex, sell |-> sell_dex]] >>
             ELSE <<>>

\* the comparison with the direction taken from the positions: buy at the
\* source, sell at the target
ComparePairBuyingAtSource(source_dex, target_dex) ==
    IF source_dex.price <= 0 \/ target_dex.price <= 0 THEN <<>>
    ELSE LET price_diff_pct == PriceDiffPct(source_dex.price, target_dex.price)
             buy_dex == source_dex
             sell_dex == target_dex
             estimated_profit == calculate_estimated_profit(buy_dex, sell_dex, price_diff_pct)
         IN  IF estimated_profit > 0
             THEN << [token_pair |-> source_dex.token_pair,
                      buy_dex |-> buy_dex.dex_name,
                      sell_dex |-> sell_dex.dex_name,
                      buy_price |-> Min(source_dex.price, target_dex.price),
                      sell_price |-> Max(source_dex.price, target_dex.price),
                      price_diff_pct |-> price_diff_pct,
                      estimated_profit_usd |-> estimated_profit,
                      network |-> buy_dex.network,
                      loan_amount |-> NoKey,
                      ai_confidence |-> NoKey,
                      quotes |-> [buy |-> buy_dex, sell |-> sell_dex]] >>
             ELSE <<>>

\* the comparison of one source/target pair: <<>> or one opportunity
ComparePair(source_dex, target_dex) ==
    IF source_dex.price <= 0 \/ target_dex.price <= 0 THEN <<>>
    ELSE LET price_diff_pct == PriceDiffPct(source_dex.price, target_dex.price)
             buy_dex == IF source_dex.price < target_dex.price THEN source_dex ELSE target_dex
             sell_dex == IF source_dex.price < target_dex.price THEN target_dex ELSE source_dex
             estimated_profit == calculate_estimated_profit(buy_dex, sell_dex, price_diff_pct)
         IN  IF estimated_profit > 0
             THEN << [token_pair |-> source_dex.token_pair,
                      buy_dex |-> buy_dex.dex_name,
                      sell_dex |-> sell_dex.dex_name,
                      buy_price |-> Min(source_dex.price, target_dex.price),
                      sell_price |-> Max(source_dex.price, target_dex.price),
                      price_diff_pct |-> price_diff_pct,
                      estimated_profit_usd |-> estimated_profit,
                      network |-> buy_dex.network,
                      loan_amount |-> NoKey,
                      ai_confidence |-> NoKey,
                      \* not a key of the dict: the quotes it was detected from
                      quotes |-> [buy |-> buy_dex, sell |-> sell_dex]] >>
             ELSE <<>>

\* the keys of the token_pairs dict, in insertion order
RECURSIVE TokenPairKeys(_)
TokenPairKeys(price_data) ==
    IF price_data = <<>> THEN <<>>
    ELSE LET rest == TokenPairKeys(FirstN(price_data, Len(price_data) - 1))
             tp == price_data[Len(price_data)].token_pair
         IN  IF tp \in Range(rest) THEN rest ELSE Append(rest, tp)

\* each quote compared with the next one only
ComparePricesAdjacent(prices) ==
    Flatten([i \in 1..(Len(prices) - 1) |-> ComparePair(prices[i], prices[i + 1])])

\* for i, source in enumerate(prices): for target in prices[i+1:]
ComparePrices(prices) ==
    Flatten([i \in 1..Len(prices) |->
        Flatten([k \in 1..(Len(prices) - i) |-> ComparePair(prices[i], prices[i + k])])])

identify_arbitrage_opportunities(price_data) ==
    LET keys == TokenPairKeys(price_data)
        group(tp) == SelectSeq(price_data, LAMBDA q : q.token_pair = tp)
    IN  Flatten([g \in 1..Len(keys) |->
            IF Len(group(keys[g])) < 2 THEN <<>> ELSE ComparePrices(group(keys[g]))])

-----------------------------------------------------------------------------
(* ai/prediction_engine.py: scoring.  prediction is what model.predict yields *)
(* for this batch: ok is FALSE when prepare_features or predict raises, conf  *)
(* holds one confidence per opportunity.                                      *)

enhance_opportunities(is_active, opportunities, prediction) ==
    IF ~is_active
    THEN [i \in 1..Len(opportunities) |->
            [opportunities[i] EXCEPT !.ai_confidence = DefaultConfidence]]
    ELSE IF prediction.ok /\ Len(prediction.conf) >= Len(opportunities)
    THEN [i \in 1..Len(opportunities) |->
            [opportunities[i] EXCEPT !.ai_confidence = prediction.conf[i]]]
    ELSE [i \in 1..Len(opportunities) |->
            [opportunities[i] EXCEPT !.ai_confidence = DefaultConfidence]]

-----------------------------------------------------------------------------
(* core/flash_loan.py: filtering and ranking *)

\* list.sort(key=estimated_profit_usd, reverse=True): stable, descending
RECURSIVE InsertDesc(_, _)
InsertDesc(sorted, op) ==
    IF sorted = <<>> THEN <<op>>
    ELSE IF Head(sorted).estimated_profit_usd >= op.estimated_profit_usd
         THEN <<Head(sorted)>> \o InsertDesc(Tail(sorted), op)
         ELSE <<op>> \o sorted

RECURSIVE SortDesc(_)
SortDesc(ops) ==
    IF ops = <<>> THEN <<>>
    ELSE InsertDesc(SortDesc(FirstN(ops, Len(ops) - 1)), ops[Len(ops)])

\* op.get('ai_confidence', 0)
ConfidenceOrZero(op) == IF op.ai_confidence = NoKey THEN 0 ELSE op.ai_confidence

filter_opportunities(opportunities) ==
    LET by_profit == SelectSeq(opportunities,
                        LAMBDA op : op.estimated_profit_usd >= minimum_profit_threshold)
        by_confidence ==
            IF by_profit # <<>> /\ by_profit[1].ai_confidence # NoKey
            THEN SelectSeq(by_profit,
                    LAMBDA op : ConfidenceOrZero(op) >= AI_CONFIDENCE_THRESHOLD)
            ELSE by_profit
    IN  SortDesc(by_confidence)

-----------------------------------------------------------------------------
(* Inputs *)

Quote(tp, dex, net, price, liq) ==
    [token_pair |-> tp, dex_name |-> dex, network |-> net, price |-> price, liquidity |-> liq]

\* liquidity in USD as format_result stores it; NoKey when the source gave none
LiquiditySet == {NoKey, 0, 50000, 1500000, 2000000, 10000000}

LoanQuotes == {Quote("ETH-USDT", "PANCAKESWAP", "BSC", 100, l) : l \in LiquiditySet}

QuotePool ==
    { Quote("ETH-USDT", "PANCAKESWAP", "BSC", 100, 1500000),
      Quote("ETH-USDT", "SUSHISWAP", "BSC", 101, 2000000),
      Quote("ETH-USDT", "QUICKSWAP", "POLYGON", 103, NoKey),
      Quote("ETH-USDT", "UNISWAP_V3", "POLYGON", 0, 10000000),
      Quote("WBNB-BUSD", "PANCAKESWAP", "BSC", 100, 50000),
      Quote("WBNB-BUSD", "SUSHISWAP", "BSC", 103, 10000000),
      Quote("WBNB-BUSD", "QUICKSWAP", "POLYGON", 101, 0),
      Quote("WBNB-BUSD", "APESWAP", "BSC", 100, 2000000),
      Quote("MATIC-USDT", "QUICKSWAP", "POLYGON", 1000, 2000000),
      Quote("MATIC-USDT", "SUSHISWAP", "POLYGON", 1002, 2000000) }

\* a snapshot holds at most one quote per (token_pair, dex_name, network) cache key
Snapshots ==
    {s \in UNION {[1..n -> QuotePool] : n \in 0..MaxQuotes} :
        \A i, j \in 1..Len(s) : i # j => s[i] # s[j]}

\* two quotes for ETH-USDT on BSC, 1800 and 1830, in either order
ScenarioSnapshots ==
    LET A == Quote("ETH-USDT", "DEX_A", "BSC", 1800, 2000000)
        B == Quote("ETH-USDT", "DEX_B", "BSC", 1830, 1500000)
    IN  {<<A, B>>, <<B, A>>}

\* a snapshot with more than top-N profitable pairs
WideSnapshots ==
    {<<Quote("ETH-USDT", "PANCAKESWAP", "BSC", 100, 1500000),
       Quote("ETH-USDT", "SUSHISWAP", "BSC", 101, 2000000),
       Quote("ETH-USDT", "QUICKSWAP", "POLYGON", 103, NoKey),
       Quote("ETH-USDT", "APESWAP", "BSC", 105, 2000000)>>}

ConfidenceSet == {30, 60}

Predictions(n) ==
    {[ok |-> FALSE, conf |-> <<>>]} \cup
    {[ok |-> TRUE, conf |-> c] : c \in [1..n -> ConfidenceSet]}

-----------------------------------------------------------------------------
(* core/reinvestment.py *)

NoFile == [exists |-> FALSE]

\* a STATE_FILE that exists and that open or json.load raises on
UnreadableFile == [exists |-> TRUE, content |-> "not json"]

\* load_state reaches its three assignments
Loads(file) == file.exists /\ "content" \notin DOMAIN file

\* a file written without the profit history
SavedStateWithoutHistory(capital, profit, history) ==
    [exists |-> TRUE, current_capital |-> capital, total_profit |-> profit,
     profit_history |-> <<>>]

SavedState(capital, profit, history) ==
    [exists |-> TRUE, current_capital |-> capital, total_profit |-> profit,
     profit_history |-> history]

\* the increase applied without the min(50.0, ..) cap
adjust_allocations_uncapped(capital, history, allocation) ==
    LET recent_profits == SumSeq(LastN(history, RecentWindow))
        base == Max(1000, capital - recent_profits)
    IN  IF recent_profits * 100 > allocation_increase_threshold * base
        THEN allocation + (allocation * recent_profits) \div base
        ELSE IF recent_profits < 0
        THEN Max(AllocationFloor, (allocation * 8) \div 10)
        ELSE allocation

\* roi_percent taken over the capital that includes the recent profits
adjust_allocations_gross_base(capital, history, allocation) ==
    LET recent_profits == SumSeq(LastN(history, RecentWindow))
        base == Max(1000, capital)
    IN  IF recent_profits * 100 > allocation_increase_threshold * base
        THEN Min(AllocationCap, allocation + (allocation * recent_profits) \div base)
        ELSE IF recent_profits < 0
        THEN Max(AllocationFloor, (allocation * 8) \div 10)
        ELSE allocation

\* roi_percent = recent / max(1.0, capital - recent) * 100, compared without dividing
adjust_allocations(capital, history, allocation) ==
    LET recent_profits == SumSeq(LastN(history, RecentWindow))
        base == Max(1000, capital - recent_profits)
    IN  IF recent_profits * 100 > allocation_increase_threshold * base
        THEN Min(AllocationCap, allocation + (allocation * recent_profits) \div base)
        ELSE IF recent_profits < 0
        THEN Max(AllocationFloor, (allocation * 8) \div 10)
        ELSE allocation

\* the guard written as profit_amount < 0
IsNoOpStrict(profit_amount) == profit_amount < 0

\* no guard: losses are recorded like profits
IsNoOpNever(profit_amount) == FALSE

\* if profit_amount <= 0: return
IsNoOp(profit_amount) == profit_amount <= 0

\* the slice taken from the front: self.profit_history[:1000]
TrimHistoryOldest(history) ==
    IF Len(history) > HistoryCap THEN FirstN(history, HistoryCap) ELSE history

\* self.profit_history[-1000:] once it is longer than 1000
TrimHistory(history) ==
    IF Len(history) > HistoryCap THEN LastN(history, HistoryCap) ELSE history

\* an update_capital that adds the profit to the values the module was
\* constructed with, as a call does that read them before another call wrote
update_capital_on_stale_read(profit_amount, save_ok) ==
    /\ capital_log' = [capital_log EXCEPT
                            !.calls = Append(@, profit_amount),
                            !.saved = IF IsNoOp(profit_amount) THEN @ ELSE save_ok]
    /\ IF IsNoOp(profit_amount)
       THEN UNCHANGED <<current_capital, total_profit, profit_history,
                        max_allocation_per_trade, state_file>>
       ELSE LET capital == capital_log.base_capital + profit_amount
                profit == capital_log.base_profit + profit_amount
                history == TrimHistory(Append(capital_log.base, profit_amount))
            IN  /\ total_profit' = profit
                /\ current_capital' = capital
                /\ profit_history' = history
                /\ state_file' = IF save_ok THEN SavedState(capital, profit, history)
                                  ELSE state_file
                /\ max_allocation_per_trade' =
                        adjust_allocations(capital, history, max_allocation_per_trade)

\* an update_capital whose save_state lets the exception of a failed write
\* out: adjust_allocations is not reached
update_capital_save_raises(profit_amount, save_ok) ==
    /\ capital_log' = [capital_log EXCEPT
                            !.calls = Append(@, profit_amount),
                            !.saved = IF IsNoOp(profit_amount) THEN @ ELSE save_ok]
    /\ IF IsNoOp(profit_amount)
       THEN UNCHANGED <<current_capital, total_profit, profit_history,
                        max_allocation_per_trade, state_file>>
       ELSE LET capital == current_capital + profit_amount
                profit == total_profit + profit_amount
                history == TrimHistory(Append(profit_history, profit_amount))
            IN  /\ total_profit' = profit
                /\ current_capital' = capital
                /\ profit_history' = history
                /\ state_file' = IF save_ok THEN SavedState(capital, profit, history)
                                  ELSE state_file
                /\ max_allocation_per_trade' =
                        IF save_ok
                        THEN adjust_allocations(capital, history, max_allocation_per_trade)
                        ELSE max_allocation_per_trade

\* an update_capital that records the profit without adding it to the capital
update_capital_profit_only(profit_amount, save_ok) ==
    /\ capital_log' = [capital_log EXCEPT
                            !.calls = Append(@, profit_amount),
                            !.saved = IF IsNoOp(profit_amount) THEN @ ELSE save_ok]
    /\ IF IsNoOp(profit_amount)
       THEN UNCHANGED <<current_capital, total_profit, profit_history,
                        max_allocation_per_trade, state_file>>
       ELSE LET capital == current_capital
                profit == total_profit + profit_amount
                history == TrimHistory(Append(profit_history, profit_amount))
            IN  /\ total_profit' = profit
                /\ current_capital' = capital
                /\ profit_history' = history
                /\ state_file' = IF save_ok THEN SavedState(capital, profit, history)
                                  ELSE state_file
                /\ max_allocation_per_trade' =
                        adjust_allocations(capital, history, max_allocation_per_trade)

\* save_ok is FALSE when writing STATE_FILE raises (caught and logged by save_state)
update_capital(profit_amount, save_ok) ==
    /\ capital_log' = [capital_log EXCEPT
                            !.calls = Append(@, profit_amount),
                            !.saved = IF IsNoOp(profit_amount) THEN @ ELSE save_ok]
    /\ IF IsNoOp(profit_amount)
       THEN UNCHANGED <<current_capital, total_profit, profit_history,
                        max_allocation_per_trade, state_file>>
       ELSE LET capital == current_capital + profit_amount
                profit == total_profit + profit_amount
                history == TrimHistory(Append(profit_history, profit_amount))
            IN  /\ total_profit' = profit
                /\ current_capital' = capital
                /\ profit_history' = history
                /\ state_file' = IF save_ok THEN SavedState(capital, profit, history)
                                  ELSE state_file
                /\ max_allocation_per_trade' =
                        adjust_allocations(capital, history, max_allocation_per_trade)

\* __init__ followed by load_state on the given STATE_FILE content
LoadedModule(file) ==
    /\ state_file = file
    /\ current_capital = IF Loads(file) THEN file.current_capital ELSE INITIAL_CAPITAL_USD
    /\ total_profit = IF Loads(file) THEN file.total_profit ELSE 0
    /\ profit_history = IF Loads(file) THEN file.profit_history ELSE <<>>
    /\ max_allocation_per_trade = MAX_ALLOCATION_PER_TRADE
    /\ capital_log = [base |-> profit_history, base_capital |-> current_capital,
                      base_profit |-> total_profit, calls |-> <<>>,
                      saved |-> TRUE, restarts |-> 0, before |-> <<>>]

\* the process ends and a new ReinvestmentModule is constructed: __init__ sets
\* the defaults, load_state overwrites the three keys the file holds
Restart ==
    /\ capital_log.restarts < MaxRestarts
    /\ current_capital' = IF Loads(state_file) THEN state_file.current_capital
                           ELSE INITIAL_CAPITAL_USD
    /\ total_profit' = IF Loads(state_file) THEN state_file.total_profit ELSE 0
    /\ profit_history' = IF Loads(state_file) THEN state_file.profit_history ELSE <<>>
    /\ max_allocation_per_trade' = MAX_ALLOCATION_PER_TRADE
    /\ capital_log' = [capital_log EXCEPT
                            !.restarts = @ + 1,
                            !.before = [current_capital |-> current_capital,
                                        total_profit |-> total_profit,
                                        profit_history |-> profit_history,
                                        max_allocation_per_trade |-> max_allocation_per_trade,
                                        saved |-> capital_log.saved]]
    /\ UNCHANGED state_file

-----------------------------------------------------------------------------
(* core/flash_loan.py: execute_opportunity *)

\* the call made without waiting for a permit
CanAcquireAlways(value, queue) == TRUE

\* asyncio.Semaphore.acquire returns at once unless locked(): no permit, or waiters
CanAcquire(value, queue) == value > 0 /\ queue = <<>>

\* opportunity.get('loan_amount', determine_loan_amount({'dex_name': ..}, {'dex_name': ..}))
LoanAmountFor(opportunity) ==
    IF opportunity.loan_amount # NoKey THEN opportunity.loan_amount
    ELSE determine_loan_amount([dex_name |-> opportunity.buy_dex, liquidity |-> NoKey],
                               [dex_name |-> opportunity.sell_dex, liquidity |-> NoKey])

\* execution_result['profit_usd'] >= self.minimum_profit_threshold * 2
NotifySuccess(profit_usd) == profit_usd >= minimum_profit_threshold * 2

\* the failure alert sent from twice the threshold on
NotifyFailureFromTwice(opportunity) ==
    opportunity.estimated_profit_usd >= minimum_profit_threshold * 2

\* opportunity['estimated_profit_usd'] >= self.minimum_profit_threshold * 5
NotifyFailure(opportunity) ==
    opportunity.estimated_profit_usd >= minimum_profit_threshold * 5

\* a failed execution sent back to call execute_flash_loan again
AfterExecutionRetrying(opportunity, result, profit_usd) ==
    CASE result = "success" /\ NotifySuccess(profit_usd) -> "alert_medium"
      [] result = "success" /\ ~NotifySuccess(profit_usd) -> "sleeping"
      [] result = "failure" -> "admitted"
      [] OTHER -> "alert_error"

\* where the task stands after execute_flash_loan returned or raised
AfterExecution(opportunity, result, profit_usd) ==
    CASE result = "success" /\ NotifySuccess(profit_usd) -> "alert_medium"
      [] result = "success" /\ ~NotifySuccess(profit_usd) -> "sleeping"
      [] result = "failure" /\ NotifyFailure(opportunity) -> "alert_high"
      [] result = "failure" /\ ~NotifyFailure(opportunity) -> "sleeping"
      [] OTHER -> "alert_error"

\* update_capital reached only when the alert went out
UpdatesOnlyIfSent(sent, profit_usd) == IF sent THEN <<profit_usd>> ELSE <<>>

\* the update_capital calls that follow the "medium" alert, whatever send_alert returned
UpdatesAfterAlert(sent, profit_usd) == <<profit_usd>>

\* the priority of the alert a task awaits
AlertPriority(pc) == IF pc = "alert_medium" THEN "medium" ELSE "high"

\* the number of the next cycle that dispatches: one more than the cycle of
\* the task created last
NextCycle == IF tasks = <<>> THEN 1 ELSE tasks[Len(tasks)].cycle + 1

\* amount, submitted, updates, alerts and sent record what the task did:
\* the amount passed to execute_flash_loan, how often it was called, the
\* update_capital arguments, the send_alert priorities and what send_alert
\* returned; cycle is the cycle that created the task
NewTask(opportunity) ==
    [opp |-> opportunity, pc |-> "created", amount |-> NoKey, submitted |-> 0,
     result |-> "none", profit_usd |-> 0, updates |-> <<>>, alerts |-> <<>>,
     sent |-> "none", cycle |-> NextCycle]

\* the call of execute_flash_loan: the task is in flight from here
Submit(task) ==
    [task EXCEPT !.pc = "executing", !.amount = LoanAmountFor(task.opp),
                 !.submitted = @ + 1]

TaskIds == 1..Len(tasks)
InFlight == {t \in TaskIds : tasks[t].pc = "executing"}

\* the first waiter whose future is not done yet, 0 when there is none
NextWaiter ==
    LET idx == {i \in 1..Len(waiters) : tasks[waiters[i]].pc = "waiting"}
    IN  IF idx = {} THEN 0 ELSE waiters[CHOOSE i \in idx : \A j \in idx : i <= j]

\* a release that neither returns the permit nor wakes a waiter
ReleaseKeepingPermit(t, finished) ==
    /\ permits' = permits
    /\ holders' = holders \ {t}
    /\ tasks' = [tasks EXCEPT ![t] = finished]

\* leaving "async with": release() wakes the next waiter or returns the permit
Release(t, finished) ==
    LET w == NextWaiter
    IN  IF w = 0
        THEN /\ permits' = permits + 1
             /\ holders' = holders \ {t}
             /\ tasks' = [tasks EXCEPT ![t] = finished]
        ELSE /\ permits' = permits
             /\ holders' = (holders \ {t}) \cup {w}
             /\ tasks' = [tasks EXCEPT ![t] = finished, ![w].pc = "admitted"]

\* an event loop that runs its ready tasks in no particular order
StartsInAnyOrder(t) == TRUE

\* the event loop runs new tasks in the order create_task scheduled them
StartsNext(t) == \A u \in 1..(t - 1) : tasks[u].pc # "created"

\* the task's first step
Start(t) ==
    /\ tasks[t].pc = "created"
    /\ StartsNext(t)
    /\ IF CanAcquire(permits, waiters)
       THEN /\ permits' = permits - 1
            /\ holders' = holders \cup {t}
            /\ tasks' = [tasks EXCEPT ![t] = Submit(@)]
            /\ UNCHANGED waiters
       ELSE /\ waiters' = Append(waiters, t)
            /\ tasks' = [tasks EXCEPT ![t].pc = "waiting"]
            /\ UNCHANGED <<permits, holders>>
    /\ UNCHANGED <<running, loop_pc, active, alerts, pure, aggVars>>
    /\ just_submitted' = CanAcquire(permits, waiters)
    /\ UNCHANGED capVars

\* a woken waiter runs again: it leaves the queue and calls execute_flash_loan
Resume(t) ==
    /\ tasks[t].pc = "admitted"
    /\ waiters' = SelectSeq(waiters, LAMBDA w : w # t)
    /\ tasks' = [tasks EXCEPT ![t] = Submit(@)]
    /\ UNCHANGED <<running, loop_pc, active, permits, holders, alerts, pure, aggVars>>
    /\ just_submitted' = TRUE
    /\ UNCHANGED capVars

\* what execute_flash_loan can hand back: {success: True, profit_usd},
\* {success: False, error}, or an exception
Outcome(result, profit_usd) == [result |-> result, profit_usd |-> profit_usd]
AllOutcomes == {Outcome("success", 5000), Outcome("success", 30000),
                Outcome("failure", 0), Outcome("raise", 0)}
FewOutcomes == {Outcome("success", 5000), Outcome("failure", 0), Outcome("raise", 0)}

NextUpdate(task, calls) == [task EXCEPT !.updates = @ \o calls]

\* execute_flash_loan returns or raises; the task runs on to its next await
ExecutionReturns(t, outcomes, save_results) ==
    /\ tasks[t].pc = "executing"
    /\ \E outcome \in outcomes, save_ok \in save_results :
        LET result == outcome.result
            profit == outcome.profit_usd
            next_pc == AfterExecution(tasks[t].opp, result, profit)
            task == [tasks[t] EXCEPT !.pc = next_pc, !.result = result,
                                     !.profit_usd = profit]
        IN  CASE next_pc = "sleeping" /\ result = "success" ->
                    /\ tasks' = [tasks EXCEPT ![t] = NextUpdate(task, <<profit>>)]
                    /\ update_capital(profit, save_ok)
              [] next_pc = "sleeping" /\ result # "success" ->
                    /\ tasks' = [tasks EXCEPT ![t] = task]
                    /\ UNCHANGED capVars
              [] OTHER ->
                    /\ tasks' = [tasks EXCEPT ![t] =
                            [task EXCEPT !.alerts = Append(@, AlertPriority(next_pc))]]
                    /\ UNCHANGED capVars
    /\ UNCHANGED <<running, loop_pc, active, permits, waiters, holders, alerts, pure, aggVars>>
    /\ just_submitted' = FALSE

\* send_alert returns True or False: a channel that fails is caught inside it
AlertReturns(t, send_results, save_results) ==
    /\ tasks[t].pc \in {"alert_medium", "alert_high", "alert_error"}
    /\ \E sent \in send_results, save_ok \in save_results :
        CASE tasks[t].pc = "alert_medium" ->
                LET calls == UpdatesAfterAlert(sent, tasks[t].profit_usd)
                IN  /\ tasks' = [tasks EXCEPT ![t] =
                            NextUpdate([@ EXCEPT !.pc = "sleeping",
                                                 !.sent = IF sent THEN "yes" ELSE "no"], calls)]
                    /\ IF calls = <<>> THEN UNCHANGED capVars
                       ELSE update_capital(calls[1], save_ok)
                    /\ UNCHANGED <<permits, holders>>
          [] tasks[t].pc = "alert_high" ->
                /\ tasks' = [tasks EXCEPT ![t].pc = "sleeping",
                                          ![t].sent = IF sent THEN "yes" ELSE "no"]
                /\ UNCHANGED <<permits, holders>>
                /\ UNCHANGED capVars
          [] OTHER ->
                /\ Release(t, [tasks[t] EXCEPT !.pc = "done",
                                               !.sent = IF sent THEN "yes" ELSE "no"])
                /\ UNCHANGED capVars
    /\ UNCHANGED <<running, loop_pc, active, waiters, alerts, pure, aggVars>>
    /\ just_submitted' = FALSE

\* asyncio.sleep(execution_interval / 1000) is over: the "async with" block ends
SleepReturns(t) ==
    /\ tasks[t].pc = "sleeping"
    /\ Release(t, [tasks[t] EXCEPT !.pc = "done"])
    /\ UNCHANGED <<running, loop_pc, active, waiters, alerts, pure, aggVars>>
    /\ just_submitted' = FALSE
    /\ UNCHANGED capVars

-----------------------------------------------------------------------------
(* core/flash_loan.py: start_monitoring and opportunity_loop *)

\* the snapshots get_latest_prices hands to one cycle
DispatchSnapshots ==
    LET A == Quote("ETH-USDT", "PANCAKESWAP", "BSC", 100, 1500000)
        B == Quote("ETH-USDT", "SUSHISWAP", "BSC", 101, 2000000)
        E == Quote("WBNB-BUSD", "PANCAKESWAP", "BSC", 100, 50000)
        F == Quote("WBNB-BUSD", "SUSHISWAP", "BSC", 103, 10000000)
    IN  {<<>>, <<A, B>>, <<E, F>>, <<A, B, E, F>>}

FewSnapshots ==
    {<<>>, <<Quote("ETH-USDT", "PANCAKESWAP", "BSC", 100, 1500000),
             Quote("ETH-USDT", "SUSHISWAP", "BSC", 101, 2000000)>>}

\* every viable opportunity dispatched
DispatchedAll(viable) == viable

\* viable_opportunities[:5]
Dispatched(viable) == FirstN(viable, TopN)

\* one pass of the loop body up to the create_task calls
CycleResult(is_active, price_data, prediction) ==
    Dispatched(filter_opportunities(
        enhance_opportunities(is_active, identify_arbitrage_opportunities(price_data),
                              prediction)))

\* what one cycle can dispatch, by whether the scorer is active
CycleResultsOf(snapshots) ==
    [a \in BOOLEAN |->
        UNION {{CycleResult(a, s, pr) :
                    pr \in Predictions(Len(identify_arbitrage_opportunities(s)))} :
               s \in snapshots}]

CycleResults == CycleResultsOf(DispatchSnapshots)
FewCycleResults == CycleResultsOf(FewSnapshots)

StartMonitoring ==
    /\ loop_pc = "idle"
    /\ running' = TRUE
    /\ loop_pc' = "ready"
    /\ UNCHANGED <<active, tasks, permits, waiters, holders, alerts, pure, aggVars>>
    /\ just_submitted' = FALSE
    /\ UNCHANGED capVars

Cycle(results, max_tasks) ==
    /\ loop_pc = "ready"
    /\ running
    /\ \E dispatched \in results[active] :
        /\ Len(tasks) + Len(dispatched) <= max_tasks
        /\ tasks' = tasks \o [i \in 1..Len(dispatched) |-> NewTask(dispatched[i])]
    /\ loop_pc' = "sleeping"
    /\ UNCHANGED <<running, active, permits, waiters, holders, alerts, pure, aggVars>>
    /\ just_submitted' = FALSE
    /\ UNCHANGED capVars

\* asyncio.sleep(0.1) is over
CycleSleepReturns ==
    /\ loop_pc = "sleeping"
    /\ loop_pc' = "ready"
    /\ UNCHANGED <<running, active, tasks, permits, waiters, holders, alerts, pure, aggVars>>
    /\ just_submitted' = FALSE
    /\ UNCHANGED capVars

\* get_latest_prices or a later step of the cycle raised: logged, nothing dispatched
CycleFails ==
    /\ loop_pc = "ready"
    /\ running
    /\ loop_pc' = "backoff"
    /\ UNCHANGED <<running, active, tasks, permits, waiters, holders, alerts, pure, aggVars>>
    /\ just_submitted' = FALSE
    /\ UNCHANGED capVars

\* asyncio.sleep(5) is over
BackoffReturns ==
    /\ loop_pc = "backoff"
    /\ loop_pc' = "ready"
    /\ UNCHANGED <<running, active, tasks, permits, waiters, holders, alerts, pure, aggVars>>
    /\ just_submitted' = FALSE
    /\ UNCHANGED capVars

\* a task start_monitoring gathers raised: running = False and a "high" alert
MonitoringFails ==
    /\ running
    /\ running' = FALSE
    /\ alerts' = Append(alerts, "high")
    /\ UNCHANGED <<loop_pc, active, tasks, permits, waiters, holders, pure, aggVars>>
    /\ just_submitted' = FALSE
    /\ UNCHANGED capVars

\* while self.running: is false
LoopExits ==
    /\ loop_pc = "ready"
    /\ ~running
    /\ loop_pc' = "exited"
    /\ UNCHANGED <<running, active, tasks, permits, waiters, holders, alerts, pure, aggVars>>
    /\ just_submitted' = FALSE
    /\ UNCHANGED capVars

\* `while True:` in place of `while self.running:`
LoopConditionAlways == TRUE

\* `while self.running:` of opportunity_loop
LoopCondition == running

\* the loop test passed and the cycle awaits get_latest_prices and
\* enhance_opportunities
CycleBegins ==
    /\ loop_pc = "ready"
    /\ LoopCondition
    /\ loop_pc' = "in_cycle"
    /\ UNCHANGED <<running, active, tasks, permits, waiters, holders, alerts, pure, aggVars>>
    /\ just_submitted' = FALSE
    /\ UNCHANGED capVars

\* the awaits of the cycle are over: its viable opportunities are dispatched
\* and the loop sleeps
CycleDispatches(results, max_tasks) ==
    /\ loop_pc = "in_cycle"
    /\ \E dispatched \in results[active] :
        /\ Len(tasks) + Len(dispatched) <= max_tasks
        /\ tasks' = tasks \o [i \in 1..Len(dispatched) |-> NewTask(dispatched[i])]
    /\ loop_pc' = "sleeping"
    /\ UNCHANGED <<running, active, permits, waiters, holders, alerts, pure, aggVars>>
    /\ just_submitted' = FALSE
    /\ UNCHANGED capVars

\* an opportunity_loop whose try block does not catch: the exception ends it
CycleRaisesUncaught ==
    /\ loop_pc = "in_cycle"
    /\ loop_pc' = "exited"
    /\ UNCHANGED <<running, active, tasks, permits, waiters, holders, alerts, pure, aggVars>>
    /\ just_submitted' = FALSE
    /\ UNCHANGED capVars

\* an await of the cycle raised: logged, nothing dispatched
CycleRaises ==
    /\ loop_pc = "in_cycle"
    /\ loop_pc' = "backoff"
    /\ UNCHANGED <<running, active, tasks, permits, waiters, holders, alerts, pure, aggVars>>
    /\ just_submitted' = FALSE
    /\ UNCHANGED capVars

\* PriceAggregator.start re-raises an exception of its loop; the gather of
\* start_monitoring passes it on and the except block runs.  during and
\* dispatched_before record where opportunity_loop was at that moment.
StartRaises ==
    /\ running
    /\ start_pc.pc # "raised"
    /\ start_pc' = [pc |-> "raised", wake |-> 0, during |-> loop_pc,
                    dispatched_before |-> Len(tasks)]
    /\ running' = FALSE
    /\ alerts' = Append(alerts, "high")
    /\ UNCHANGED <<loop_pc, active, tasks, permits, waiters, holders, pure>>
    /\ UNCHANGED <<now, price_cache, last_update, rate_limits, updates, latest,
                   exhausted, recent_fetches>>
    /\ just_submitted' = FALSE
    /\ UNCHANGED capVars

-----------------------------------------------------------------------------
(* dexs/price_aggregator.py.  Time is counted in seconds; the clock starts   *)
(* at Epoch, far enough from last_update = 0 for the first interval checks   *)
(* to pass, as they do with time.time().  A sleeping coroutine wakes when    *)
(* its delay has elapsed; a fetch returns after any time.  The               *)
(* api_semaphore of 50 permits never makes the fetches of Triples wait.      *)

update_interval == 1

max_retries == 3

base_delay == 1

Epoch == 2

\* the (token_pair, dex_name, network) triples update_prices fans out to
Triples ==
    {<<"ETH-USDT", "PANCAKESWAP", "BSC">>, <<"ETH-USDT", "SUSHISWAP", "BSC">>}

\* DEXInterface.min_api_interval, in milliseconds
min_api_interval(dex_name) == IF dex_name = "PANCAKESWAP" THEN 1000 ELSE 500

\* rate_limit_key = f"{dex_name}_{network}"
rate_limit_key(k) == <<k[2], k[3]>>

\* cache_key = f"{token_pair}_{dex_name}_{network}"
cache_key(result) == <<result.token_pair, result.dex_name, result.network>>

NoQuote == [present |-> FALSE]

\* a quote returned by a fetch that came back at time t
QuoteAt(k, t) ==
    [present |-> TRUE, token_pair |-> k[1], dex_name |-> k[2], network |-> k[3],
     timestamp |-> t]

\* list(self.price_cache.values())
CacheValues(cache) == {cache[k] : k \in {j \in DOMAIN cache : cache[j].present}}

Callers == {"start", "get_latest_prices"}

NoUpdate == [in_flight |-> FALSE]

\* the time get_price_with_retry sleeps before its first attempt
RateLimitDelay(k) ==
    IF rate_limit_key(k) \in DOMAIN rate_limits
    THEN Max(0, rate_limits[rate_limit_key(k)].min_interval
                - (now - rate_limits[rate_limit_key(k)].last_call))
    ELSE 0

\* one get_price_with_retry coroutine: the attempt it is at (from 1), what it
\* is doing, and the time its sleep ends (backoff) or its quote came (got)
FirstAttempt(k) ==
    IF RateLimitDelay(k) > 0
    THEN [attempt |-> 0, status |-> "backoff", at |-> now + RateLimitDelay(k)]
    ELSE [attempt |-> 1, status |-> "fetching", at |-> 0]

\* one attempt more than max_retries
MayRetryOnceMore(attempt) == attempt < max_retries + 1

\* for attempt in range(max_retries)
MayRetry(attempt) == attempt < max_retries

\* price_data is None: the loop goes to its next attempt at once
AfterNone(fetch) ==
    IF MayRetry(fetch.attempt)
    THEN [attempt |-> fetch.attempt + 1, status |-> "fetching", at |-> 0]
    ELSE [fetch EXCEPT !.status = "failed"]

\* dex_manager.get_price raised: sleep base_delay * 2 ** attempt, except after
\* the last attempt
AfterException(fetch) ==
    IF MayRetry(fetch.attempt)
    THEN [attempt |-> fetch.attempt, status |-> "backoff",
          at |-> now + base_delay * 2 ^ (fetch.attempt - 1)]
    ELSE [fetch EXCEPT !.status = "failed"]

\* the quote is returned at once: no attempt follows it
AfterQuote(fetch) == [status |-> "got", at |-> now]

FetchOutcomes == {"quote", "none", "raise"}

otherVars == <<running, loop_pc, active, tasks, permits, waiters, holders, alerts,
               just_submitted, current_capital, total_profit, profit_history,
               max_allocation_per_trade, state_file, capital_log, pure>>

AggregatorInit ==
    /\ now = Epoch
    /\ price_cache = [k \in Triples |-> NoQuote]
    /\ last_update = 0
    /\ rate_limits = <<>>
    /\ updates = [c \in Callers |-> NoUpdate]
    /\ start_pc = [pc |-> "idle", wake |-> 0]
    /\ latest = [pc |-> "idle", calls |-> 0]
    /\ exhausted = {}
    /\ recent_fetches = {}

\* update_prices up to its gather: FALSE when the interval has not elapsed
UpdateDue == now - last_update >= update_interval

NewUpdate == [in_flight |-> TRUE, fetch |-> [k \in Triples |-> FirstAttempt(k)]]

\* the triples of an update whose coroutine has a request out
Issued(update) == {k \in Triples : update.fetch[k].status = "fetching"}

\* one iteration of PriceAggregator.start reaches update_prices
StartCallsUpdate ==
    /\ start_pc.pc = "idle"
    /\ IF UpdateDue
       THEN /\ last_update' = now
            /\ updates' = [updates EXCEPT !["start"] = NewUpdate]
            /\ start_pc' = [pc |-> "updating", wake |-> 0]
       ELSE /\ start_pc' = [pc |-> "sleeping", wake |-> now + update_interval]
            /\ UNCHANGED <<last_update, updates>>
    /\ recent_fetches' = IF UpdateDue
                         THEN recent_fetches \cup {rate_limit_key(k) : k \in Issued(NewUpdate)}
                         ELSE recent_fetches
    /\ UNCHANGED <<now, price_cache, rate_limits, latest, exhausted>>
    /\ UNCHANGED otherVars

\* await dex_manager.get_price(...) comes back for one coroutine of one update
FetchReturns(c, k, outcomes) ==
    /\ updates[c].in_flight
    /\ updates[c].fetch[k].status = "fetching"
    /\ \E outcome \in outcomes :
        updates' = [updates EXCEPT ![c].fetch[k] =
                        CASE outcome = "quote" -> AfterQuote(@)
                          [] outcome = "none" -> AfterNone(@)
                          [] OTHER -> AfterException(@)]
    /\ recent_fetches' = IF updates'[c].fetch[k].status = "fetching"
                         THEN recent_fetches \cup {rate_limit_key(k)}
                         ELSE recent_fetches
    /\ UNCHANGED <<now, price_cache, last_update, rate_limits, start_pc, latest,
                   exhausted>>
    /\ UNCHANGED otherVars

\* the asyncio.sleep of one coroutine is over: its next attempt starts
RetrySleepReturns(c, k) ==
    /\ updates[c].in_flight
    /\ updates[c].fetch[k].status = "backoff"
    /\ now >= updates[c].fetch[k].at
    /\ updates' = [updates EXCEPT ![c].fetch[k] =
                        [attempt |-> @.attempt + 1, status |-> "fetching", at |-> 0]]
    /\ recent_fetches' = recent_fetches \cup {rate_limit_key(k)}
    /\ UNCHANGED <<now, price_cache, last_update, rate_limits, start_pc, latest,
                   exhausted>>
    /\ UNCHANGED otherVars

\* valid_results of a gather that gives up on the first failed coroutine
ValidResultsUnlessAnyFailed(update) ==
    IF \E k \in Triples : update.fetch[k].status = "failed"
    THEN {}
    ELSE {k \in Triples : update.fetch[k].status = "got"}

\* the triples of an update whose coroutine returned a quote
ValidResults(update) == {k \in Triples : update.fetch[k].status = "got"}

\* the cache after the loop over valid_results
CacheAfter(update) ==
    [k \in Triples |-> IF k \in ValidResults(update)
                       THEN QuoteAt(k, update.fetch[k].at)
                       ELSE price_cache[k]]

\* what get_latest_prices does once its update_prices call is over
AfterRefresh(cache, did_fetch) ==
    IF CacheValues(cache) = {}
    THEN [pc |-> "direct", calls |-> latest.calls,
          age |-> latest.age, had_cache |-> latest.had_cache]
    ELSE [pc |-> "returned", calls |-> latest.calls, snapshot |-> CacheValues(cache),
          fetched |-> did_fetch, from_cache |-> TRUE, at |-> now,
          age |-> latest.age, had_cache |-> latest.had_cache]

\* gather has every result: the cache is written and update_prices returns
UpdateCompletes(c) ==
    /\ updates[c].in_flight
    /\ \A k \in Triples : updates[c].fetch[k].status \in {"got", "failed"}
    /\ price_cache' = CacheAfter(updates[c])
    /\ exhausted' = Triples \ ValidResults(updates[c])
    /\ updates' = [updates EXCEPT ![c] = NoUpdate]
    /\ IF c = "start"
       THEN /\ start_pc' = [pc |-> "sleeping", wake |-> now + update_interval]
            /\ UNCHANGED latest
       ELSE /\ latest' = AfterRefresh(price_cache', TRUE)
                            @@ [exhausted |-> exhausted']
            /\ UNCHANGED start_pc
    /\ UNCHANGED <<now, last_update, rate_limits, recent_fetches>>
    /\ UNCHANGED otherVars

\* asyncio.sleep(self.update_interval / 1000) in PriceAggregator.start is over
StartSleepReturns ==
    /\ start_pc.pc = "sleeping"
    /\ now >= start_pc.wake
    /\ start_pc' = [pc |-> "idle", wake |-> 0]
    /\ UNCHANGED <<now, price_cache, last_update, rate_limits, updates, latest,
                   exhausted, recent_fetches>>
    /\ UNCHANGED otherVars

\* the test of get_latest_prices with the non-empty half left out
CacheIsRecentOrEmpty == now - last_update < update_interval * 2

\* `current_time - self.last_update < self.update_interval * 2 and self.price_cache`
CacheIsRecent ==
    now - last_update < update_interval * 2 /\ CacheValues(price_cache) # {}

\* get_latest_prices is called (by opportunity_loop) and runs to its first
\* await or to its return; age and had_cache record what the call found
GetLatestPrices ==
    /\ latest.pc \in {"idle", "returned"}
    /\ latest.calls < MaxReads
    /\ LET found == [calls |-> latest.calls + 1, age |-> now - last_update,
                     had_cache |-> CacheValues(price_cache) # {}]
           answer == [pc |-> "returned", snapshot |-> CacheValues(price_cache),
                      fetched |-> FALSE, from_cache |-> TRUE, at |-> now,
                      exhausted |-> exhausted] @@ found
       IN  IF CacheIsRecent
           THEN /\ latest' = answer
                /\ UNCHANGED <<last_update, updates>>
           ELSE IF UpdateDue
           THEN /\ last_update' = now
                /\ updates' = [updates EXCEPT !["get_latest_prices"] = NewUpdate]
                /\ latest' = [pc |-> "updating"] @@ found
           ELSE /\ latest' = IF CacheValues(price_cache) = {}
                             THEN [pc |-> "direct"] @@ found
                             ELSE answer
                /\ UNCHANGED <<last_update, updates>>
    /\ recent_fetches' = IF latest'.pc = "updating"
                         THEN recent_fetches \cup {rate_limit_key(k) : k \in Issued(NewUpdate)}
                         ELSE recent_fetches
    /\ UNCHANGED <<now, price_cache, rate_limits, start_pc, exhausted>>
    /\ UNCHANGED otherVars

\* the cache was still empty: dex_manager.get_all_prices fetches every triple
\* once, and the quotes that came back are returned
DirectFetch ==
    /\ latest.pc = "direct"
    /\ \E answered \in SUBSET Triples :
        latest' = [pc |-> "returned", calls |-> latest.calls,
                   snapshot |-> {QuoteAt(k, now) : k \in answered},
                   fetched |-> TRUE, from_cache |-> FALSE, at |-> now,
                   exhausted |-> exhausted,
                   age |-> latest.age, had_cache |-> latest.had_cache]
    /\ UNCHANGED <<now, price_cache, last_update, rate_limits, updates, start_pc,
                   exhausted, recent_fetches>>
    /\ UNCHANGED otherVars

\* the coroutines that run without waiting for anything: a sleeper that is
\* due, the start loop about to call update_prices, a gather whose results
\* are all in
DueSleepers ==
    \/ start_pc.pc = "sleeping" /\ start_pc.wake <= now
    \/ start_pc.pc = "idle"
    \/ \E c \in Callers : /\ updates[c].in_flight
                          /\ \A k \in Triples :
                                updates[c].fetch[k].status \in {"got", "failed"}
    \/ \E c \in Callers : /\ updates[c].in_flight
                          /\ \E k \in Triples : /\ updates[c].fetch[k].status = "backoff"
                                                /\ updates[c].fetch[k].at <= now

\* one second passes
Tick ==
    /\ now < MaxTime
    /\ ~DueSleepers
    /\ now' = now + 1
    /\ recent_fetches' = {}
    /\ UNCHANGED <<price_cache, last_update, rate_limits, updates, start_pc, latest,
                   exhausted>>
    /\ UNCHANGED otherVars

NextAggregator ==
    \/ StartCallsUpdate
    \/ \E c \in Callers, k \in Triples : FetchReturns(c, k, FetchOutcomes)
    \/ \E c \in Callers, k \in Triples : RetrySleepReturns(c, k)
    \/ \E c \in Callers : UpdateCompletes(c)
    \/ StartSleepReturns
    \/ GetLatestPrices
    \/ DirectFetch
    \/ Tick

-----------------------------------------------------------------------------
(* The orchestrator, started on a fresh ReinvestmentModule, with or without a *)
(* scorer.  Spec follows many concurrent tasks over few inputs; SpecPolicy    *)
(* follows few tasks over every kind of opportunity, outcome and alert result *)
(* (MaxPolicyTasks tasks find a free permit each, so none of them waits)      *)

Init ==
    /\ running = FALSE
    /\ loop_pc = "idle"
    /\ active \in BOOLEAN
    /\ tasks = <<>>
    /\ permits = max_concurrent_executions
    /\ waiters = <<>>
    /\ holders = {}
    /\ alerts = <<>>
    /\ just_submitted = FALSE
    /\ LoadedModule(NoFile)
    /\ pure = [op |-> "none"]
    /\ AggregatorInit

Next ==
    \/ StartMonitoring
    \/ Cycle(FewCycleResults, MaxTasks)
    \/ CycleSleepReturns
    \/ CycleFails
    \/ BackoffReturns
    \/ \E t \in TaskIds : Start(t)
    \/ \E t \in TaskIds : Resume(t)
    \/ \E t \in TaskIds : ExecutionReturns(t, FewOutcomes, {TRUE})
    \/ \E t \in TaskIds : AlertReturns(t, {TRUE}, {TRUE})
    \/ \E t \in TaskIds : SleepReturns(t)

Spec == Init /\ [][Next]_vars

\* a step of some execute_opportunity task
TaskStep ==
    \E t \in TaskIds :
        \/ Start(t)
        \/ Resume(t)
        \/ ExecutionReturns(t, FewOutcomes, {TRUE})
        \/ AlertReturns(t, {TRUE}, {TRUE})
        \/ SleepReturns(t)

\* the event loop runs a task that is ready, and the awaits of the tasks
\* (execute_flash_loan, send_alert, asyncio.sleep) return: as long as some
\* task can take a step, some task does
TaskFairness == WF_vars(TaskStep)

\* the cycles that run to their end, and the tasks they dispatch
NextFair ==
    \/ StartMonitoring
    \/ Cycle(FewCycleResults, MaxTasks)
    \/ CycleSleepReturns
    \/ TaskStep

SpecFair == Init /\ [][NextFair]_vars /\ TaskFairness

NextPolicy ==
    \/ StartMonitoring
    \/ Cycle(CycleResults, MaxPolicyTasks)
    \/ CycleSleepReturns
    \/ CycleFails
    \/ BackoffReturns
    \/ MonitoringFails
    \/ LoopExits
    \/ \E t \in TaskIds : Start(t)
    \/ \E t \in TaskIds : ExecutionReturns(t, AllOutcomes, {TRUE})
    \/ \E t \in TaskIds : AlertReturns(t, BOOLEAN, {TRUE})
    \/ \E t \in TaskIds : SleepReturns(t)

SpecPolicy == Init /\ [][NextPolicy]_vars

\* start_monitoring with a price aggregator whose start may raise, and the
\* cycles of opportunity_loop with their awaits
NextMonitoring ==
    \/ StartMonitoring
    \/ CycleBegins
    \/ CycleDispatches(CycleResults, MaxPolicyTasks)
    \/ CycleRaises
    \/ CycleSleepReturns
    \/ BackoffReturns
    \/ StartRaises
    \/ LoopExits
    \/ \E t \in TaskIds : Start(t)
    \/ \E t \in TaskIds : ExecutionReturns(t, AllOutcomes, {TRUE})
    \/ \E t \in TaskIds : AlertReturns(t, BOOLEAN, {TRUE})
    \/ \E t \in TaskIds : SleepReturns(t)

SpecMonitoring == Init /\ [][NextMonitoring]_vars

\* cycle after cycle dispatching one opportunity while executions are slow
\* and fail
NextFanOut ==
    \/ StartMonitoring
    \/ Cycle(FewCycleResults, MaxFanOut)
    \/ CycleSleepReturns
    \/ \E t \in TaskIds : Start(t)
    \/ \E t \in TaskIds : Resume(t)
    \/ \E t \in TaskIds : ExecutionReturns(t, {Outcome("failure", 0)}, {TRUE})
    \/ \E t \in TaskIds : AlertReturns(t, {TRUE}, {TRUE})
    \/ \E t \in TaskIds : SleepReturns(t)

SpecFanOut == Init /\ [][NextFanOut]_vars

\* asyncio.sleep(5) returns, and the event loop then runs opportunity_loop up
\* to its next await
LoopFairness == WF_vars(BackoffReturns) /\ WF_vars(CycleBegins)

SpecLoopFair == Init /\ [][NextMonitoring]_vars /\ LoopFairness

-----------------------------------------------------------------------------
(* The ReinvestmentModule alone: constructed on an absent or a saved state    *)
(* file, then update_capital called with any amounts                          *)

\* a file an earlier run saved: 999 profits of 0.001 .. 0.999 USD
LongHistory == [i \in 1..(HistoryCap - 1) |-> i]

PersistedFiles ==
    {NoFile, UnreadableFile,
     SavedState(INITIAL_CAPITAL_USD + SumSeq(LongHistory), SumSeq(LongHistory), LongHistory)}

ProfitInputs == {-5000, 0, 3000, 400000}

InitCapital ==
    /\ running = FALSE
    /\ loop_pc = "idle"
    /\ active = FALSE
    /\ tasks = <<>>
    /\ permits = max_concurrent_executions
    /\ waiters = <<>>
    /\ holders = {}
    /\ alerts = <<>>
    /\ just_submitted = FALSE
    /\ \E file \in PersistedFiles : LoadedModule(file)
    /\ pure = [op |-> "none"]
    /\ AggregatorInit

UpdateCapitalCall ==
    /\ Len(capital_log.calls) < MaxCapitalCalls
    /\ \E profit_amount \in ProfitInputs, save_ok \in BOOLEAN :
        update_capital(profit_amount, save_ok)
    /\ UNCHANGED orchVars
    /\ UNCHANGED aggVars
    /\ UNCHANGED pure

NextCapital == UpdateCapitalCall

SpecCapital == InitCapital /\ [][NextCapital]_vars

RestartModule ==
    /\ Restart
    /\ UNCHANGED orchVars
    /\ UNCHANGED aggVars
    /\ UNCHANGED pure

NextRestart == UpdateCapitalCall \/ RestartModule

SpecRestart == InitCapital /\ [][NextRestart]_vars

\* the aggregator next to an orchestrator that has no scorer and is not started
InitAggregator == Init /\ active = FALSE

SpecAggregator == InitAggregator /\ [][NextAggregator]_vars

-----------------------------------------------------------------------------
(* The pure functions, each behaviour applying one of them once to inputs     *)
(* drawn from bounded sets                                                    *)

CallDetermineLoanAmount ==
    /\ pure.op = "none"
    /\ \E buy_dex \in LoanQuotes, sell_dex \in LoanQuotes :
        pure' = [op |-> "determine_loan_amount", buy_dex |-> buy_dex,
                 sell_dex |-> sell_dex,
                 result |-> determine_loan_amount(buy_dex, sell_dex)]
    /\ UNCHANGED orchVars
    /\ UNCHANGED aggVars
    /\ UNCHANGED capVars

\* detection, scoring and filtering of one snapshot, as opportunity_loop chains them
CallEnhanceAndFilter ==
    /\ pure.op = "none"
    /\ \E price_data \in Snapshots \cup ScenarioSnapshots \cup WideSnapshots :
        LET opportunities == identify_arbitrage_opportunities(price_data)
        IN  \E prediction \in Predictions(Len(opportunities)) :
            LET enhanced == enhance_opportunities(active, opportunities, prediction)
                viable == filter_opportunities(enhanced)
            IN  pure' = [op |-> "enhance_and_filter", scorer_active |-> active,
                         price_data |-> price_data,
                         prediction |-> prediction, opportunities |-> opportunities,
                         enhanced |-> enhanced,
                         viable |-> viable,
                         dispatched |-> Dispatched(viable)]
    /\ UNCHANGED orchVars
    /\ UNCHANGED aggVars
    /\ UNCHANGED capVars

\* the capital state one update_capital call leaves, as a function of the
\* state it is called on
UpdatedState(state, profit_amount) ==
    IF IsNoOp(profit_amount) THEN state
    ELSE LET capital == state.current_capital + profit_amount
             history == TrimHistory(Append(state.profit_history, profit_amount))
         IN  [current_capital |-> capital,
              profit_history |-> history,
              max_allocation_per_trade |->
                  adjust_allocations(capital, history, state.max_allocation_per_trade)]

\* a history of 51 entries whose first entry lies outside the last 50
WindowHistory == <<900000>> \o [i \in 1..RecentWindow |-> 100]

\* capital states update_capital is applied to: capital in mills, history
\* amounts in mills, allocation in tenths of a percent
CapitalStates ==
    [current_capital : {INITIAL_CAPITAL_USD, 2000000},
     profit_history : {<<>>, <<30000>>, <<1000000>>, <<-500000>>,
                       <<-100000, 100000>>, WindowHistory},
     max_allocation_per_trade : {AllocationFloor, 60, 100, MAX_ALLOCATION_PER_TRADE,
                                 AllocationCap}]

CallUpdateCapital ==
    /\ pure.op = "none"
    /\ \E state \in CapitalStates, profit_amount \in {-5000, 0, 3000, 100000} :
        pure' = [op |-> "update_capital", before |-> state,
                 profit_amount |-> profit_amount,
                 after |-> UpdatedState(state, profit_amount)]
    /\ UNCHANGED orchVars
    /\ UNCHANGED aggVars
    /\ UNCHANGED capVars

\* get_allocation_for_opportunity works on amounts counted in 1/2000 of a
\* mill (2,000,000 to the dollar, 20,000 to the cent): capital in whole USD,
\* max_allocation_per_trade in tenths of a percent, ai_confidence in
\* hundredths, estimated_profit_usd in whole USD (multiples of 50), liquidity
\* in cents.
UnitsPerCent == 20000

MIN_RESERVE_PERCENT == 20

MAX_POOL_IMPACT_PERCENT == 2

\* current_capital * (1 - min_reserve_percent / 100), in mills
available_capital(capital, min_reserve_percent) ==
    capital * (1000 - 10 * min_reserve_percent)

\* opportunity['liquidity'] * (max_pool_impact_percent / 100)
max_by_liquidity(liquidity) == liquidity * 200 * MAX_POOL_IMPACT_PERCENT

\* round(allocation, 2): to the nearest cent, ties to the even cent
RoundCents(allocation) ==
    LET q == allocation \div UnitsPerCent
        r == allocation - q * UnitsPerCent
    IN  IF 2 * r > UnitsPerCent THEN q + 1
        ELSE IF 2 * r < UnitsPerCent THEN q
        ELSE IF q % 2 = 0 THEN q ELSE q + 1

\* base_allocation * confidence_factor * (1 + profit_factor / 10), before the
\* pool-impact limit and the rounding
ModifiedAllocation(capital, allocation_percent, min_reserve_percent, opportunity) ==
    LET base_allocation == Min(capital * allocation_percent,
                               available_capital(capital, min_reserve_percent))
        confidence_factor == IF opportunity.ai_confidence = NoKey
                             THEN DefaultConfidence ELSE opportunity.ai_confidence
        estimated == IF opportunity.estimated_profit_usd = NoKey
                     THEN 0 ELSE opportunity.estimated_profit_usd
        profit_factor == Min(500, estimated) \div 50
    IN  base_allocation * confidence_factor * (20 + profit_factor)

\* the allocation returned without the pool-impact limit
get_allocation_ignoring_pool(capital, allocation_percent, min_reserve_percent, opportunity) ==
    RoundCents(ModifiedAllocation(capital, allocation_percent,
                                  min_reserve_percent, opportunity))

\* the allocation returned, in cents
get_allocation_for_opportunity(capital, allocation_percent, min_reserve_percent, opportunity) ==
    LET allocation == ModifiedAllocation(capital, allocation_percent,
                                         min_reserve_percent, opportunity)
    IN  IF opportunity.liquidity # NoKey
        THEN RoundCents(Min(allocation, max_by_liquidity(opportunity.liquidity)))
        ELSE RoundCents(allocation)

\* opportunities handed to get_allocation_for_opportunity; NoKey marks an
\* absent key
AllocationOpportunities ==
    [ai_confidence : {NoKey, 0, 60, 100},
     estimated_profit_usd : {NoKey, -2000, 50, 500, 5000},
     liquidity : {NoKey, 0, 123450, 123480, 2000000}]

CallGetAllocation ==
    /\ pure.op = "none"
    /\ \E capital \in {1000, 1234},
          allocation_percent \in {AllocationFloor, MAX_ALLOCATION_PER_TRADE, AllocationCap},
          min_reserve_percent \in {MIN_RESERVE_PERCENT, 60},
          opportunity \in AllocationOpportunities :
        pure' = [op |-> "get_allocation_for_opportunity",
                 current_capital |-> capital,
                 max_allocation_per_trade |-> allocation_percent,
                 min_reserve_percent |-> min_reserve_percent,
                 opportunity |-> opportunity,
                 result |-> get_allocation_for_opportunity(capital, allocation_percent,
                                                           min_reserve_percent, opportunity)]
    /\ UNCHANGED orchVars
    /\ UNCHANGED aggVars
    /\ UNCHANGED capVars

\* dexs/dex_manager.py.  A name is the sequence of the pieces its underscores
\* separate: UNISWAP_V3 is <<"UNISWAP", "V3">>.  Joining two names with "_"
\* concatenates their pieces, and str.split('_') gives the pieces back.

\* the (dex_name, network) pairs DEX_CONFIG enables
DEX_CONFIG ==
    { << <<"PANCAKESWAP">>, <<"BSC">> >>,
      << <<"UNISWAP", "V3">>, <<"POLYGON">> >>,
      << <<"QUICKSWAP">>, <<"POLYGON">> >>,
      << <<"SUSHISWAP">>, <<"BSC">> >>,
      << <<"SUSHISWAP">>, <<"POLYGON">> >> }

\* key = f"{dex_name}_{network}"
registry_key(dex_name, network) == dex_name \o network

\* self.dex_interfaces after _initialize_dexs registered the given pairs
dex_interfaces(registered) == {registry_key(r[1], r[2]) : r \in registered}

\* `dex_name, network = key.split('_')` raises ValueError unless the key has
\* exactly two pieces
get_available_dexs(interfaces) ==
    IF \E key \in interfaces : Len(key) # 2
    THEN [raised |-> TRUE]
    ELSE [raised |-> FALSE,
          result |-> [network \in {key[2] : key \in interfaces} |->
                        {key[1] : key \in {k \in interfaces : k[2] = network}}]]

CallGetAvailableDexs ==
    /\ pure.op = "none"
    /\ \E registered \in SUBSET DEX_CONFIG :
        pure' = [op |-> "get_available_dexs",
                 registered |-> registered,
                 result |-> get_available_dexs(dex_interfaces(registered))]
    /\ UNCHANGED orchVars
    /\ UNCHANGED aggVars
    /\ UNCHANGED capVars

NextPure ==
    \/ CallDetermineLoanAmount
    \/ CallEnhanceAndFilter
    \/ CallUpdateCapital
    \/ CallGetAllocation
    \/ CallGetAvailableDexs

SpecPure == Init /\ [][NextPure]_vars

-----------------------------------------------------------------------------
(* Properties *)

\* C1: in every reachable state at most max_concurrent_executions calls of
\* execute_flash_loan are in flight, and every task with a call in flight holds
\* a permit of execution_semaphore, of which at most max_concurrent_executions
\* are held.
ConcurrencyCapped ==
    /\ Cardinality(InFlight) <= max_concurrent_executions
    /\ InFlight \subseteq holders
    /\ Cardinality(holders) <= max_concurrent_executions

\* every permit is taken by a call in flight while another task waits for one
PermitsExhausted ==
    /\ Cardinality(InFlight) = max_concurrent_executions
    /\ \E t \in TaskIds : tasks[t].pc = "waiting"

\* C2: the loan amount a task passes to execute_flash_loan equals the amount
\* determine_loan_amount gave for the opportunity's buy and sell quotes when
\* the opportunity was detected.
LoanAmountAsDetected ==
    \A t \in TaskIds :
        tasks[t].submitted > 0 =>
            tasks[t].amount = determine_loan_amount(tasks[t].opp.quotes.buy,
                                                    tasks[t].opp.quotes.sell)

\* C3 (as stated): the loan lies in [minLoanUsd, maxLoanUsd] and, when both
\* liquidities are known, is at most 1% of the smaller one.
LoanWithinBoundsAndLiquidity ==
    pure.op = "determine_loan_amount" =>
        /\ MIN_LOAN_AMOUNT_USD <= pure.result
        /\ pure.result <= MAX_LOAN_AMOUNT_USD
        /\ (pure.buy_dex.liquidity # NoKey /\ pure.sell_dex.liquidity # NoKey) =>
                pure.result * 100 <= Min(pure.buy_dex.liquidity, pure.sell_dex.liquidity)

\* C3 (amended): the loan lies in [minLoanUsd, maxLoanUsd]; when both
\* liquidities are known and 1% of the smaller one is at least minLoanUsd, the
\* loan is at most that 1%.
LoanWithinBounds ==
    pure.op = "determine_loan_amount" =>
        /\ MIN_LOAN_AMOUNT_USD <= pure.result
        /\ pure.result <= MAX_LOAN_AMOUNT_USD
        /\ (/\ pure.buy_dex.liquidity # NoKey
            /\ pure.sell_dex.liquidity # NoKey
            /\ Min(pure.buy_dex.liquidity, pure.sell_dex.liquidity)
                    >= 100 * MIN_LOAN_AMOUNT_USD) =>
                pure.result * 100 <= Min(pure.buy_dex.liquidity, pure.sell_dex.liquidity)

\* two pools of different known depth, the shallower one setting the loan
LoanSetByShallowerPool ==
    /\ pure.op = "determine_loan_amount"
    /\ pure.buy_dex.liquidity # NoKey
    /\ pure.sell_dex.liquidity # NoKey
    /\ pure.buy_dex.liquidity # pure.sell_dex.liquidity
    /\ pure.result * 100 = Min(pure.buy_dex.liquidity, pure.sell_dex.liquidity)
    /\ pure.result > MIN_LOAN_AMOUNT_USD
    /\ pure.result < MAX_LOAN_AMOUNT_USD

\* C4: when no scorer is active, or the prediction fails, every opportunity
\* gets confidence 0.5 and filter_opportunities returns every opportunity
\* whose estimated profit is at least the minimum profit threshold.
NoScorerPassesProfitable ==
    (pure.op = "enhance_and_filter" /\ (~pure.scorer_active \/ ~pure.prediction.ok)) =>
        /\ \A i \in 1..Len(pure.enhanced) :
                pure.enhanced[i].ai_confidence = DefaultConfidence
        /\ Range(pure.viable) =
                {o \in Range(pure.enhanced) :
                    o.estimated_profit_usd >= minimum_profit_threshold}

\* C5: max_allocation_per_trade stays within [5, 50] percent after any
\* sequence of update_capital calls.
AllocationWithinRange ==
    /\ AllocationFloor <= max_allocation_per_trade
    /\ max_allocation_per_trade <= AllocationCap

\* the increases reached the cap
AllocationAtCap ==
    /\ max_allocation_per_trade = AllocationCap
    /\ Len(capital_log.calls) >= 2

\* C6: a call update_capital(p) with p <= 0 leaves current_capital,
\* total_profit, profit_history and max_allocation_per_trade as they were and
\* writes nothing to the state file.
NonPositiveProfitIsNoOp ==
    [][(/\ capital_log'.calls # capital_log.calls
        /\ capital_log'.calls[Len(capital_log'.calls)] <= 0)
            => UNCHANGED <<current_capital, total_profit, profit_history,
                           max_allocation_per_trade, state_file>>]_vars

\* update_capital(0) and update_capital(negative) were each called on a
\* module that already holds profits
NonPositiveProfitsSeen ==
    /\ profit_history # <<>>
    /\ \E i \in 1..Len(capital_log.calls) : capital_log.calls[i] = 0
    /\ \E i \in 1..Len(capital_log.calls) : capital_log.calls[i] < 0

\* C7: every call update_capital(p) with p > 0 adds exactly p to total_profit
\* and to current_capital and appends p at the end of profit_history, which
\* holds at most 1000 entries: the most recent ones, in arrival order.
CapitalFollowsProfits ==
    LET arrived == SelectSeq(capital_log.calls, LAMBDA p : p > 0)
        all == capital_log.base \o arrived
    IN  /\ total_profit = capital_log.base_profit + SumSeq(arrived)
        /\ current_capital = capital_log.base_capital + SumSeq(arrived)
        /\ Len(profit_history) <= HistoryCap
        /\ Len(profit_history) = IF Len(all) <= HistoryCap THEN Len(all) ELSE HistoryCap
        /\ \A i \in 1..Len(profit_history) :
                profit_history[i] = all[Len(all) - Len(profit_history) + i]

\* more than 1000 profits arrived: the oldest is gone, the newest is last
OldestEvicted ==
    /\ Len(profit_history) = HistoryCap
    /\ Len(capital_log.base) + Len(SelectSeq(capital_log.calls, LAMBDA p : p > 0))
            > HistoryCap
    /\ capital_log.calls # <<>>
    /\ capital_log.calls[Len(capital_log.calls)] > 0
    /\ profit_history[HistoryCap] = capital_log.calls[Len(capital_log.calls)]

\* C8: a task whose execution succeeded calls update_capital exactly once,
\* with the realized profit_usd, once its "medium" alert (if any) has returned,
\* sent or not; a task whose execution did not succeed never calls it; and
\* update_capital is called by nobody else.
CapitalUpdatedOncePerSuccess ==
    /\ \A t \in TaskIds :
        /\ (tasks[t].result = "success" /\ tasks[t].pc \in {"sleeping", "done"}) =>
                tasks[t].updates = <<tasks[t].profit_usd>>
        /\ (tasks[t].result = "success" /\ tasks[t].pc = "alert_medium") =>
                tasks[t].updates = <<>>
        /\ tasks[t].result # "success" => tasks[t].updates = <<>>
    /\ Len(capital_log.calls) = SumSeq([t \in TaskIds |-> Len(tasks[t].updates)])

\* the "medium" alert of a successful execution could not be sent, and
\* update_capital was called with the profit all the same
UpdatedDespiteFailedAlert ==
    \E t \in TaskIds :
        /\ tasks[t].result = "success"
        /\ tasks[t].alerts = <<"medium">>
        /\ tasks[t].sent = "no"
        /\ tasks[t].updates = <<tasks[t].profit_usd>>
        /\ total_profit = SumSeq(capital_log.calls)
        /\ total_profit >= tasks[t].profit_usd

\* C9 (as stated): a failed execution emits one "high" alert iff the estimated
\* profit is at least 5 x the threshold, a successful one emits one "medium"
\* alert iff the realized profit is at least 2 x the threshold, and a
\* dispatched opportunity emits no other alert.
AlertPolicyNoOther ==
    \A t \in TaskIds :
        tasks[t].result # "none" =>
            tasks[t].alerts =
                IF /\ tasks[t].result = "failure"
                   /\ tasks[t].opp.estimated_profit_usd >= 5 * minimum_profit_threshold
                THEN <<"high">>
                ELSE IF /\ tasks[t].result = "success"
                        /\ tasks[t].profit_usd >= 2 * minimum_profit_threshold
                THEN <<"medium">>
                ELSE <<>>

\* C9 (amended): as stated for failed and successful executions; an exception
\* escaping execute_flash_loan emits exactly one "high" alert, and a
\* dispatched opportunity emits no other alert.
AlertPolicy ==
    \A t \in TaskIds :
        tasks[t].result # "none" =>
            tasks[t].alerts =
                IF /\ tasks[t].result = "failure"
                   /\ tasks[t].opp.estimated_profit_usd >= 5 * minimum_profit_threshold
                THEN <<"high">>
                ELSE IF /\ tasks[t].result = "success"
                        /\ tasks[t].profit_usd >= 2 * minimum_profit_threshold
                THEN <<"medium">>
                ELSE IF tasks[t].result = "raise"
                THEN <<"high">>
                ELSE <<>>

\* two finished tasks: a failure above 5 x the threshold that alerted and a
\* failure below it that did not
FailuresAlertedByEstimate ==
    \E t, u \in TaskIds :
        /\ tasks[t].result = "failure" /\ tasks[t].pc = "done"
        /\ tasks[t].opp.estimated_profit_usd >= 5 * minimum_profit_threshold
        /\ tasks[t].alerts = <<"high">>
        /\ tasks[u].result = "failure" /\ tasks[u].pc = "done"
        /\ tasks[u].opp.estimated_profit_usd >= minimum_profit_threshold
        /\ tasks[u].opp.estimated_profit_usd < 5 * minimum_profit_threshold
        /\ tasks[u].alerts = <<>>

\* C10: execute_flash_loan is called at most once for each opportunity handed
\* to execute_opportunity, exactly once by the time the task has an outcome,
\* and never again after a failed outcome or an exception.
NoRetry ==
    \A t \in TaskIds :
        /\ tasks[t].submitted <= 1
        /\ tasks[t].result # "none" => tasks[t].submitted = 1

\* a failed and a raised execution are over, the loop has gone on to dispatch
\* a later opportunity, and neither was submitted again
FailedOnceAndLoopWentOn ==
    \E t, u, v \in TaskIds :
        /\ tasks[t].result = "failure" /\ tasks[t].pc = "done" /\ tasks[t].submitted = 1
        /\ tasks[u].result = "raise" /\ tasks[u].pc = "done" /\ tasks[u].submitted = 1
        /\ t < v /\ u < v
        /\ tasks[v].pc = "executing"

\* C11: on every path through execute_opportunity the permit is returned:
\* available permits + permit holders = max_concurrent_executions in every
\* state, and, every await of a task returning, every task suspended on the
\* semaphore is eventually admitted and calls execute_flash_loan.
PermitAlwaysReturned ==
    /\ [](permits + Cardinality(holders) = max_concurrent_executions)
    /\ \A t \in 1..MaxTasks :
        (t \in TaskIds /\ tasks[t].pc = "waiting")
            ~> (t \in TaskIds /\ tasks[t].pc = "executing")

\* a waiter was woken by the release of a task whose execution raised: every
\* finished task raised, and the other holders are still executing
WaiterAdmittedAfterException ==
    /\ \E u \in TaskIds : tasks[u].pc = "admitted"
    /\ \E t \in TaskIds : tasks[t].pc = "done"
    /\ \A t \in TaskIds : tasks[t].pc = "done" => tasks[t].result = "raise"
    /\ \A t \in TaskIds : tasks[t].pc \in {"done", "admitted", "executing", "waiting"}
    /\ permits + Cardinality(holders) = max_concurrent_executions

\* C12: after every execution attempt, whatever its result, the task sleeps
\* execution_interval ms before it gives its permit back: a task only
\* finishes from its sleep.
DelayBeforeRelease ==
    [][\A t \in TaskIds :
            (tasks[t].pc # "done" /\ tasks'[t].pc = "done") => tasks[t].pc = "sleeping"]_vars

\* C13: two consecutive calls of execute_flash_loan, by any tasks, are
\* separated by at least execution_interval ms: no call is made in the step
\* that follows another call, before any time has passed.
SubmissionsSpaced ==
    [][(\E t \in TaskIds : tasks'[t].submitted > tasks[t].submitted)
            => ~just_submitted]_vars

\* ---------------------------------------------------------------------
\* Detection: what identify_arbitrage_opportunities emits

\* the index pairs the double loop visits: i < j within one token pair
ComparedPairs(price_data) ==
    {ij \in (1..Len(price_data)) \X (1..Len(price_data)) :
        /\ ij[1] < ij[2]
        /\ price_data[ij[1]].token_pair = price_data[ij[2]].token_pair}

\* the estimate of a visited pair whose two prices are positive
NetOfPair(source_dex, target_dex) ==
    LET buy_dex == IF source_dex.price < target_dex.price THEN source_dex ELSE target_dex
        sell_dex == IF source_dex.price < target_dex.price THEN target_dex ELSE source_dex
    IN  calculate_estimated_profit(buy_dex, sell_dex,
                                   PriceDiffPct(source_dex.price, target_dex.price))

\* the opportunities of a detection call that came from this pair of quotes
EmittedFor(opportunities, a, b) ==
    {k \in 1..Len(opportunities) :
        {opportunities[k].quotes.buy, opportunities[k].quotes.sell} = {a, b}}

DetectionDone == pure.op = "enhance_and_filter"

\* C14: every emitted opportunity has a strictly positive estimated profit,
\* equal to loan * pct / 100 less the flash-loan fee, the two DEX fees and the
\* gas cost; a pair whose net estimate is zero or negative, identical prices
\* included, yields no opportunity.
EmittedProfitPositive ==
    DetectionDone =>
        /\ \A k \in 1..Len(pure.opportunities) :
            LET o == pure.opportunities[k]
                loan == determine_loan_amount(o.quotes.buy, o.quotes.sell)
            IN  /\ o.estimated_profit_usd > 0
                /\ o.estimated_profit_usd =
                       (loan * o.price_diff_pct.num * 10) \div o.price_diff_pct.den
                       - estimate_flash_loan_fee(loan, o.quotes.buy.network)
                       - estimate_dex_fees(loan, o.buy_dex, o.sell_dex)
                       - estimate_gas_cost(o.quotes.buy.network)
                /\ o.buy_price # o.sell_price
        /\ \A ij \in ComparedPairs(pure.price_data) :
            LET a == pure.price_data[ij[1]]
                b == pure.price_data[ij[2]]
            IN  (a.price > 0 /\ b.price > 0 /\ NetOfPair(a, b) <= 0)
                    => EmittedFor(pure.opportunities, a, b) = {}

\* a snapshot with an identical-price pair next to a pair that was emitted
UnprofitablePairsDropped ==
    /\ DetectionDone
    /\ Len(pure.opportunities) > 0
    /\ \E ij \in ComparedPairs(pure.price_data) :
        /\ pure.price_data[ij[1]].price > 0
        /\ pure.price_data[ij[1]].price = pure.price_data[ij[2]].price
        /\ NetOfPair(pure.price_data[ij[1]], pure.price_data[ij[2]]) <= 0

\* C15: no emitted opportunity has a buy-side or sell-side quote whose price
\* is zero or negative.
EmittedPricesPositive ==
    DetectionDone =>
        \A k \in 1..Len(pure.opportunities) :
            LET o == pure.opportunities[k]
            IN  /\ o.quotes.buy.price > 0
                /\ o.quotes.sell.price > 0
                /\ o.buy_price > 0
                /\ o.sell_price > 0

\* a zero-priced quote compared with a positive one of the same token pair,
\* in a snapshot that still produced an opportunity
ZeroQuoteSkipped ==
    /\ DetectionDone
    /\ Len(pure.opportunities) > 0
    /\ \E ij \in ComparedPairs(pure.price_data) :
        /\ pure.price_data[ij[1]].price > 0
        /\ pure.price_data[ij[2]].price <= 0

\* C16: the opportunities dispatched in one cycle are a prefix of the
\* filtered list: each has an estimated profit of at least
\* minimum_profit_threshold, they are in descending order of estimated
\* profit, and there are at most top-N (5) of them.
DispatchIsRankedPrefix ==
    DetectionDone =>
        LET d == pure.dispatched
            v == pure.viable
        IN  /\ Len(d) <= TopN
            /\ Len(d) = Min(Len(v), TopN)
            /\ \A k \in 1..Len(d) :
                /\ d[k] = v[k]
                /\ d[k].estimated_profit_usd >= minimum_profit_threshold
            /\ \A k \in 1..(Len(d) - 1) :
                d[k].estimated_profit_usd >= d[k + 1].estimated_profit_usd
            /\ \A k \in 1..Len(v) :
                /\ v[k].estimated_profit_usd >= minimum_profit_threshold
                /\ \E n \in 1..Len(pure.enhanced) : pure.enhanced[n] = v[k]

\* more viable opportunities than top-N, and the cycle dispatched top-N of
\* them after detection had listed them in another order
MoreViableThanDispatched ==
    /\ DetectionDone
    /\ Len(pure.viable) > TopN
    /\ Len(pure.dispatched) = TopN
    /\ \E k \in 1..(Len(pure.opportunities) - 1) :
        pure.opportunities[k].estimated_profit_usd
            < pure.opportunities[k + 1].estimated_profit_usd

\* the call was made on the two-quote snapshot DEX_A 1800 / DEX_B 1830
ScenarioDetected == DetectionDone /\ pure.price_data \in ScenarioSnapshots

\* C17 as stated: the two-quote snapshot (DEX_A 1800, liquidity 2,000,000;
\* DEX_B 1830, liquidity 1,500,000; BSC) yields exactly one opportunity, buying
\* on DEX_A and selling on DEX_B with a loan of 15000, a price_diff_pct of
\* about 1.64% (within 0.005 of it) and a positive estimated profit.
ScenarioDiffOfSellPrice ==
    ScenarioDetected =>
        /\ Len(pure.opportunities) = 1
        /\ LET o == pure.opportunities[1]
           IN  /\ o.buy_dex = "DEX_A"
               /\ o.sell_dex = "DEX_B"
               /\ determine_loan_amount(o.quotes.buy, o.quotes.sell) = 15000
               /\ 1635 * o.price_diff_pct.den <= 1000 * o.price_diff_pct.num
               /\ 1000 * o.price_diff_pct.num < 1645 * o.price_diff_pct.den
               /\ o.estimated_profit_usd > 0

\* C17: the same scenario, with price_diff_pct taken relative to the quote
\* listed first in the snapshot: about 1.67% (30 / 1800) when DEX_A comes
\* first, about 1.64% (30 / 1830) when DEX_B comes first.
ScenarioDiffOfFirstListed ==
    ScenarioDetected =>
        /\ Len(pure.opportunities) = 1
        /\ LET o == pure.opportunities[1]
               first == pure.price_data[1]
           IN  /\ o.buy_dex = "DEX_A"
               /\ o.sell_dex = "DEX_B"
               /\ determine_loan_amount(o.quotes.buy, o.quotes.sell) = 15000
               /\ o.price_diff_pct.num * first.price = 3000 * o.price_diff_pct.den
               /\ first.dex_name = "DEX_A" =>
                    /\ 1665 * o.price_diff_pct.den <= 1000 * o.price_diff_pct.num
                    /\ 1000 * o.price_diff_pct.num < 1675 * o.price_diff_pct.den
               /\ first.dex_name = "DEX_B" =>
                    /\ 1635 * o.price_diff_pct.den <= 1000 * o.price_diff_pct.num
                    /\ 1000 * o.price_diff_pct.num < 1645 * o.price_diff_pct.den
               /\ o.estimated_profit_usd > 0

\* the scenario's snapshot with DEX_A listed first, as the scenario gives it
ScenarioWithBuySideFirst ==
    /\ ScenarioDetected
    /\ pure.price_data[1].dex_name = "DEX_A"
    /\ Len(pure.opportunities) = 1
    /\ pure.opportunities[1].price_diff_pct = [num |-> 5, den |-> 3]

\* the visited pairs whose comparison passes the price check and the profit
\* check
ProfitablePairs(price_data) ==
    {ij \in ComparedPairs(price_data) :
        /\ price_data[ij[1]].price > 0
        /\ price_data[ij[2]].price > 0
        /\ NetOfPair(price_data[ij[1]], price_data[ij[2]]) > 0}

\* C18: every unordered pair of quotes of one token pair is compared exactly
\* once: at most one opportunity is emitted per unordered pair, every pair
\* whose net profit is positive is emitted, and each emitted opportunity buys
\* at the lower-priced quote and sells at the higher-priced one.
EachPairComparedOnce ==
    DetectionDone =>
        /\ \A ij \in ComparedPairs(pure.price_data) :
            Cardinality(EmittedFor(pure.opportunities,
                                   pure.price_data[ij[1]], pure.price_data[ij[2]])) <= 1
        /\ \A ij \in ProfitablePairs(pure.price_data) :
            Cardinality(EmittedFor(pure.opportunities,
                                   pure.price_data[ij[1]], pure.price_data[ij[2]])) = 1
        /\ Len(pure.opportunities) = Cardinality(ProfitablePairs(pure.price_data))
        /\ \A k \in 1..Len(pure.opportunities) :
            LET o == pure.opportunities[k]
            IN  /\ o.quotes.buy.price < o.quotes.sell.price
                /\ o.quotes.buy.token_pair = o.quotes.sell.token_pair
                /\ o.buy_price = o.quotes.buy.price
                /\ o.sell_price = o.quotes.sell.price
                /\ o.buy_price <= o.sell_price
                /\ o.buy_dex = o.quotes.buy.dex_name
                /\ o.sell_dex = o.quotes.sell.dex_name

\* three quotes of one token pair, all three pairs emitted, one of them with
\* the higher price listed first
AllPairsOfThreeEmitted ==
    /\ DetectionDone
    /\ Len(pure.price_data) = 3
    /\ Cardinality(ComparedPairs(pure.price_data)) = 3
    /\ Len(pure.opportunities) = 3
    /\ \E ij \in ComparedPairs(pure.price_data) :
        pure.price_data[ij[1]].price > pure.price_data[ij[2]].price

\* C19: after update_capital(p) with p > 0, with recent the sum of the last
\* 50 history entries and roi% = recent / max(1, current_capital - recent) x 100:
\* if roi% > allocation_increase_threshold, max_allocation_per_trade is
\* min(50, old x (1 + roi%/100)); if roi% < 0 it is max(5, old x 0.8);
\* otherwise it is unchanged.  update_capital(100) on capital 1000, allocation
\* 10 and an empty history strictly increases the allocation and leaves it at
\* most 50.
AllocationFollowsReturn ==
    (pure.op = "update_capital" /\ pure.profit_amount > 0) =>
        LET old == pure.before.max_allocation_per_trade
            new == pure.after.max_allocation_per_trade
            window == LastN(pure.after.profit_history, RecentWindow)
            recent == SumSeq(window)
            base == Max(1000, pure.after.current_capital - recent)
        IN  /\ Len(window) <= RecentWindow
            /\ (recent * 100 > allocation_increase_threshold * base) =>
                \/ new = AllocationCap /\ old * (base + recent) >= AllocationCap * base
                \/ /\ new < AllocationCap
                   /\ new * base <= old * (base + recent)
                   /\ old * (base + recent) < (new + 1) * base
            /\ recent < 0 =>
                \/ new = AllocationFloor /\ old * 8 <= AllocationFloor * 10
                \/ new > AllocationFloor /\ new * 10 = old * 8
            /\ (recent >= 0 /\ recent * 100 <= allocation_increase_threshold * base) =>
                new = old
            /\ (/\ pure.before.current_capital = 1000000
                /\ pure.before.profit_history = <<>>
                /\ old = 100
                /\ pure.profit_amount = 100000) =>
                    (new > old /\ new <= AllocationCap)

\* update_capital(100) applied to capital 1000, allocation 10, empty history:
\* the allocation went from 10 to 11
ScenarioAllocationRaised ==
    /\ pure.op = "update_capital"
    /\ pure.before = [current_capital |-> 1000000, profit_history |-> <<>>,
                      max_allocation_per_trade |-> 100]
    /\ pure.profit_amount = 100000
    /\ pure.after.max_allocation_per_trade = 110

AllocationReturned == pure.op = "get_allocation_for_opportunity"

\* the reserve limit of the call in cents, and its pool-impact limit in the
\* units of ModifiedAllocation
ReserveLimit == available_capital(pure.current_capital, pure.min_reserve_percent) \div 10

PoolLimit == max_by_liquidity(pure.opportunity.liquidity)

RestartStep == capital_log'.restarts > capital_log.restarts

\* C21: when the last save_state wrote the file, the load_state of a restart
\* yields the current_capital, total_profit and profit_history that were
\* saved, after any sequence of update_capital calls.
SavedStateRestored ==
    [][(RestartStep /\ capital_log.saved) =>
            /\ current_capital' = current_capital
            /\ total_profit' = total_profit
            /\ profit_history' = profit_history]_vars

\* a restart that followed profitable update_capital calls, the last of them
\* saved, and gave back the state those calls had built
RestoredAfterUpdates ==
    /\ capital_log.restarts = 1
    /\ capital_log.before.saved
    /\ \E i \in 1..Len(capital_log.calls) : capital_log.calls[i] > 0
    /\ capital_log.before.profit_history # capital_log.base
    /\ current_capital = capital_log.before.current_capital
    /\ total_profit = capital_log.before.total_profit
    /\ profit_history = capital_log.before.profit_history
    /\ current_capital > capital_log.base_capital

\* C22 as stated: a restart leaves max_allocation_per_trade as the
\* update_capital calls before it had adapted it.
AllocationSurvivesRestart ==
    [][RestartStep => max_allocation_per_trade' = max_allocation_per_trade]_vars

\* ---------------------------------------------------------------------
\* Price aggregation

\* this step sends a request for triple k on behalf of caller c
FetchIssued(c, k) ==
    /\ updates'[c].in_flight
    /\ updates'[c].fetch[k].status = "fetching"
    /\ \/ ~updates[c].in_flight
       \/ updates[c].fetch[k].status # "fetching"
       \/ updates[c].fetch[k].attempt # updates'[c].fetch[k].attempt

\* C23 as stated: two fetches issued by get_price_with_retry to the same
\* (dex, network) source are separated by at least the source's declared
\* minimum interval.  Checked for the sources that declare an interval of a
\* second or more: no fetch goes to a source already fetched from during the
\* current second.
FetchesRateLimited ==
    [][\A c \in Callers, k \in Triples :
            (FetchIssued(c, k) /\ min_api_interval(k[2]) >= 1000)
                => rate_limit_key(k) \notin recent_fetches]_vars

\* the get_price_with_retry coroutine of caller c for triple k is over
Returned(update, k) == update.fetch[k].status \in {"got", "failed"}

\* C24: get_price_with_retry makes at most 3 attempts per triple and tick,
\* returns the quote of the first attempt that yields one, and returns None,
\* without raising, after 3 attempts without a quote.
AtMostThreeAttempts ==
    [][\A c \in Callers, k \in Triples :
        /\ (updates'[c].in_flight /\ ~Returned(updates'[c], k))
                => updates'[c].fetch[k].attempt <= max_retries
        /\ (updates[c].in_flight /\ updates'[c].in_flight) =>
            /\ (Returned(updates[c], k))
                    => updates'[c].fetch[k] = updates[c].fetch[k]
            /\ (~Returned(updates[c], k) /\ updates'[c].fetch[k].status = "got")
                    => /\ updates[c].fetch[k].status = "fetching"
                       /\ updates'[c].fetch[k].at = now
            /\ (~Returned(updates[c], k) /\ updates'[c].fetch[k].status = "failed")
                    => /\ updates[c].fetch[k].status = "fetching"
                       /\ updates[c].fetch[k].attempt = max_retries
        /\ (updates[c].in_flight /\ ~updates'[c].in_flight)
                => \A j \in Triples : Returned(updates[c], j)]_vars

\* one tick in which a triple gave up after its third attempt while the other
\* triple returned a quote
GaveUpAfterThree ==
    \E c \in Callers :
        /\ updates[c].in_flight
        /\ \E k \in Triples :
            /\ updates[c].fetch[k].status = "failed"
            /\ updates[c].fetch[k].attempt = max_retries
        /\ \E k \in Triples : updates[c].fetch[k].status = "got"

\* C25 as stated: every retry is preceded by exponential backoff: attempt
\* k + 1 starts only from a sleep of base_delay x 2^(k-1) that began when
\* attempt k came back without a quote, whether it raised or returned none.
BackoffBeforeEveryRetry ==
    [][\A c \in Callers, k \in Triples :
        (/\ updates[c].in_flight
         /\ updates'[c].in_flight
         /\ ~Returned(updates[c], k)
         /\ ~Returned(updates'[c], k)) =>
            /\ (updates'[c].fetch[k].attempt > updates[c].fetch[k].attempt)
                    => /\ updates[c].fetch[k].status = "backoff"
                       /\ now >= updates[c].fetch[k].at
            /\ (updates[c].fetch[k].status = "fetching"
                    /\ updates'[c].fetch[k].status = "backoff")
                    => updates'[c].fetch[k].at
                            = now + base_delay * 2 ^ (updates[c].fetch[k].attempt - 1)]_vars

\* C26 as stated: a triple whose fetch exhausted its attempts in a tick has no
\* quote in the list get_latest_prices returns from the cache after that
\* tick, even if an earlier tick had fetched one.
ExhaustedTripleOmitted ==
    (latest.pc = "returned" /\ latest.from_cache) =>
        \A quote \in latest.snapshot : cache_key(quote) \notin latest.exhausted

\* C27 as stated: at most one update_prices fan-out is in flight at a time,
\* and a cache entry is only ever replaced by a quote fetched later than the
\* one it holds.
SingleCacheWriter ==
    /\ [](Cardinality({c \in Callers : updates[c].in_flight}) <= 1)
    /\ [][\A k \in Triples :
            (price_cache[k].present /\ price_cache'[k] # price_cache[k])
                => /\ price_cache'[k].present
                   /\ price_cache'[k].timestamp > price_cache[k].timestamp]_vars

\* the step in which the gather of caller c's update_prices has every result
\* and update_prices runs to its end
UpdateCompleted(c) ==
    /\ updates[c].in_flight
    /\ ~updates'[c].in_flight

CacheServedOnlyWhenFresh ==
    latest.pc = "returned" =>
        (~latest.fetched <=>
            (latest.had_cache /\ latest.age < 2 * update_interval))

\* a call found quotes in the cache that were two update intervals old, and
\* has answered after a fan-out of its own
StaleCacheRefreshed ==
    /\ latest.pc = "returned"
    /\ latest.had_cache
    /\ latest.age >= 2 * update_interval
    /\ latest.fetched
    /\ \E quote \in latest.snapshot : quote.timestamp = latest.at

\* C30: once PriceAggregator.start has raised, running is false and a
\* high-priority alert has been emitted; opportunity_loop begins no cycle
\* from then on, and only the cycle that was in progress may still dispatch.
MonitoringStopsWhenStartRaises ==
    /\ [](start_pc.pc = "raised" =>
            /\ ~running
            /\ \E i \in DOMAIN alerts : alerts[i] = "high")
    /\ [][start_pc.pc = "raised" =>
            /\ (loop_pc' = "in_cycle" => loop_pc = "in_cycle")
            /\ (Len(tasks') > Len(tasks) => /\ loop_pc = "in_cycle"
                                            /\ start_pc.during = "in_cycle")]_vars

\* start raised while a cycle was awaiting its prices; that cycle dispatched
\* its opportunities afterwards, and the loop has exited
LoopExitedAfterCycleInProgress ==
    /\ start_pc.pc = "raised"
    /\ start_pc.during = "in_cycle"
    /\ Len(tasks) > start_pc.dispatched_before
    /\ loop_pc = "exited"

\* C31: a cycle of opportunity_loop that does not reach its dispatch goes to
\* the backoff sleep and nowhere else, the loop is only ever left with
\* running false, and after a backoff another cycle begins unless running
\* has become false.
LoopSurvivesCycleException ==
    /\ [][(loop_pc = "in_cycle" /\ loop_pc' \notin {"in_cycle", "sleeping"})
            => loop_pc' = "backoff"]_vars
    /\ [][(loop_pc = "backoff" /\ loop_pc' # "backoff") => loop_pc' = "ready"]_vars
    /\ [](loop_pc = "exited" => ~running)
    /\ (loop_pc = "backoff") ~> (loop_pc = "in_cycle" \/ ~running)

\* a cycle raised while running was true, after an earlier cycle had
\* dispatched a task
CycleRaisedWhileRunning ==
    /\ loop_pc = "backoff"
    /\ running
    /\ Len(tasks) > 0

\* start_monitoring has run and running is false again
Stopped == loop_pc # "idle" /\ ~running

\* C32, the part that can fail in finitely many steps: once the orchestrator
\* has stopped, no task that had not yet called execute_flash_loan calls it,
\* and PriceAggregator.start begins no further update_prices.
NothingStartedAfterStop ==
    /\ [][Stopped => \A t \in TaskIds :
                        tasks[t].submitted = 0 => tasks'[t].submitted = 0]_vars
    /\ [][Stopped => (updates'["start"].in_flight => updates["start"].in_flight)]_vars

\* the orders in which the tasks of a set can be taken one after another
Orders(task_ids) ==
    {order \in [1..Cardinality(task_ids) -> task_ids] :
        \A i, j \in DOMAIN order : order[i] = order[j] => i = j}

\* C33: whatever tasks have called update_capital so far, concurrently or
\* not, current_capital, total_profit and profit_history are what applying
\* those calls one after another in some order gives: no update is lost.
CapitalUpdatesSerialized ==
    LET updated == {t \in TaskIds : tasks[t].updates # <<>>}
    IN  \E order \in Orders(updated) :
            LET amounts == [i \in DOMAIN order |-> tasks[order[i]].updates[1]]
                arrived == SelectSeq(amounts, LAMBDA p : p > 0)
            IN  /\ current_capital = capital_log.base_capital + SumSeq(arrived)
                /\ total_profit = capital_log.base_profit + SumSeq(arrived)
                /\ profit_history = TrimHistory(capital_log.base \o arrived)

\* two tasks were in flight together and both called update_capital with
\* different profits, the one created later first
ConcurrentTasksBothCredited ==
    \E t, u \in TaskIds :
        /\ t < u
        /\ tasks[t].updates # <<>>
        /\ tasks[u].updates # <<>>
        /\ tasks[t].updates[1] # tasks[u].updates[1]
        /\ profit_history = <<tasks[u].updates[1], tasks[t].updates[1]>>

PersistenceFailuresTolerated ==
    /\ [][(/\ capital_log'.calls # capital_log.calls
            /\ capital_log'.calls[Len(capital_log'.calls)] > 0
            /\ ~capital_log'.saved) =>
                LET p == capital_log'.calls[Len(capital_log'.calls)]
                IN  /\ current_capital' = current_capital + p
                    /\ total_profit' = total_profit + p
                    /\ profit_history' = TrimHistory(Append(profit_history, p))
                    /\ max_allocation_per_trade' =
                            adjust_allocations(current_capital', profit_history',
                                               max_allocation_per_trade)
                    /\ state_file' = state_file]_vars
    /\ [][(RestartStep /\ state_file = UnreadableFile) =>
                /\ current_capital' = INITIAL_CAPITAL_USD
                /\ total_profit' = 0
                /\ profit_history' = <<>>]_vars
    /\ []((state_file = UnreadableFile /\ capital_log.calls = <<>>) =>
                /\ current_capital = INITIAL_CAPITAL_USD
                /\ total_profit = 0
                /\ profit_history = <<>>)

\* the module started on an unreadable file, and a profit whose save failed
\* has been credited and has raised max_allocation_per_trade
CreditedWithoutStorage ==
    /\ state_file = UnreadableFile
    /\ ~capital_log.saved
    /\ capital_log.restarts = 0
    /\ total_profit > 0
    /\ current_capital = INITIAL_CAPITAL_USD + total_profit
    /\ max_allocation_per_trade > MAX_ALLOCATION_PER_TRADE

\* the tasks created that have not finished: running or waiting for a permit
Unfinished == {t \in TaskIds : tasks[t].pc # "done"}

\* C36 as stated, with the bound the truncation suggests: the number of tasks
\* created and not yet finished never exceeds the permits plus one cycle's
\* top-N dispatch.
FanOutBounded ==
    Cardinality(Unfinished) <= max_concurrent_executions + TopN

\* the snapshots that hold the quotes of price_data in another order
Reorderings(price_data) ==
    {[i \in 1..Len(price_data) |-> price_data[f[i]]] :
        f \in Permutations(1..Len(price_data))}

\* where a quote stands in a snapshot
PositionIn(price_data, quote) ==
    CHOOSE i \in 1..Len(price_data) : price_data[i] = quote

\* the two quotes of an opportunity stand in the same order in both snapshots
SameRelativeOrder(opportunity, first, second) ==
    (PositionIn(first, opportunity.quotes.buy) < PositionIn(first, opportunity.quotes.sell))
        <=> (PositionIn(second, opportunity.quotes.buy)
                < PositionIn(second, opportunity.quotes.sell))

\* what C37 compares of an opportunity
Detected(opportunity) ==
    [token_pair |-> opportunity.token_pair,
     buy_dex |-> opportunity.buy_dex,
     sell_dex |-> opportunity.sell_dex,
     price_diff_pct |-> opportunity.price_diff_pct,
     estimated_profit_usd |-> opportunity.estimated_profit_usd]

DetectedSet(opportunities) == {Detected(o) : o \in Range(opportunities)}

\* C37 as stated: every reordering of a snapshot yields the same set of
\* opportunities, with the same buy_dex, sell_dex, price_diff_pct and
\* estimated_profit_usd.
DetectionIgnoresOrder ==
    pure.op = "enhance_and_filter" =>
        \A reordered \in Reorderings(pure.price_data) :
            DetectedSet(identify_arbitrage_opportunities(reordered))
                = DetectedSet(pure.opportunities)

\* C37 amended: across the reorderings of a snapshot, opportunities detected
\* from the same two quotes agree on token_pair, buy_dex, sell_dex, buy_price,
\* sell_price and network; an opportunity whose two quotes keep their
\* relative order is emitted unchanged, price_diff_pct and
\* estimated_profit_usd included.
DetectionDirectionIgnoresOrder ==
    pure.op = "enhance_and_filter" =>
        \A reordered \in Reorderings(pure.price_data) :
            LET again == identify_arbitrage_opportunities(reordered)
            IN  \A o \in Range(pure.opportunities) :
                    /\ \A r \in Range(again) :
                            {r.quotes.buy, r.quotes.sell} = {o.quotes.buy, o.quotes.sell}
                                => /\ r.token_pair = o.token_pair
                                   /\ r.buy_dex = o.buy_dex
                                   /\ r.sell_dex = o.sell_dex
                                   /\ r.buy_price = o.buy_price
                                   /\ r.sell_price = o.sell_price
                                   /\ r.network = o.network
                    /\ SameRelativeOrder(o, pure.price_data, reordered)
                            => o \in Range(again)

\* a snapshot that lists the sell side first was given: swapped, the same
\* pair is detected in the same direction with another price_diff_pct
SwappedPairDetectedBothWays ==
    /\ pure.op = "enhance_and_filter"
    /\ Len(pure.price_data) = 2
    /\ Len(pure.opportunities) = 1
    /\ pure.opportunities[1].quotes.sell = pure.price_data[1]
    /\ \E r \in Range(identify_arbitrage_opportunities(
                        <<pure.price_data[2], pure.price_data[1]>>)) :
            /\ r.buy_dex = pure.opportunities[1].buy_dex
            /\ r.sell_dex = pure.opportunities[1].sell_dex
            /\ r.price_diff_pct # pure.opportunities[1].price_diff_pct

\* C38: current_capital - total_profit is what it was at construction,
\* total_profit has grown by the sum of the strictly positive amounts passed
\* to update_capital, and a module that loaded no state holds
\* initial_capital + total_profit.
CapitalConserved ==
    /\ current_capital - total_profit
            = capital_log.base_capital - capital_log.base_profit
    /\ total_profit - capital_log.base_profit
            = SumSeq(SelectSeq(capital_log.calls, LAMBDA p : p > 0))
    /\ (capital_log.base = <<>> /\ capital_log.base_profit = 0)
            => current_capital = INITIAL_CAPITAL_USD + total_profit

\* a module that loaded earlier profits was credited a profit and was also
\* called with a loss
ProfitAndLossAfterReload ==
    /\ capital_log.base_profit > 0
    /\ \E i \in 1..Len(capital_log.calls) : capital_log.calls[i] > 0
    /\ \E i \in 1..Len(capital_log.calls) : capital_log.calls[i] < 0
    /\ total_profit > capital_log.base_profit

\* C39: no update_capital call lowers max_allocation_per_trade, and the
\* profit_history adjust_allocations reads holds strictly positive amounts
\* only.
AllocationNeverDecreases ==
    /\ [][max_allocation_per_trade' >= max_allocation_per_trade]_vars
    /\ [](\A i \in 1..Len(profit_history) : profit_history[i] > 0)

\* two profits in a row each raised max_allocation_per_trade, and a loss
\* passed to update_capital afterwards left it where it was, below the cap
AllocationHeldAfterLoss ==
    /\ Len(capital_log.calls) = 3
    /\ capital_log.calls[1] > 0
    /\ capital_log.calls[2] > 0
    /\ capital_log.calls[3] < 0
    /\ max_allocation_per_trade > MAX_ALLOCATION_PER_TRADE
    /\ max_allocation_per_trade < AllocationCap

\* C40 as stated: whatever pairs were registered, UNISWAP_V3 included,
\* get_available_dexs returns without raising and lists every registered
\* dex_name under its network.
RegistryKeysRoundTrip ==
    pure.op = "get_available_dexs" =>
        /\ ~pure.result.raised
        /\ \A r \in pure.registered :
                /\ r[2][1] \in DOMAIN pure.result.result
                /\ \E listed \in pure.result.result[r[2][1]] : <<listed>> = r[1]

====
